---- MODULE Spec2Model ----
(***************************************************************************)
(* Model of the football-club bot's store (src/database.py), of the        *)
(* command handlers and tasks of src/bot.py that call it, and of the       *)
(* start-up in src/main.py.                                                *)
(*                                                                         *)
(* The tables are sets of rows.  REAL columns (budget, value, fee) hold    *)
(* whole amounts; the sums and differences written to budget are rounded   *)
(* as floating point rounds them.  Every Database method opens its own     *)
(* connection                                                              *)
(* ("with self.get_connection() as conn"): the connection commits when the *)
(* block is left normally (also by "return") and rolls back when it is     *)
(* left by an exception.                                                   *)
(*                                                                         *)
(* Spec  : the command handlers run one at a time (a handler never awaits  *)
(*         between its Database calls), each handler is one action.        *)
(* SpecI : two callers of the Database run statement by statement and are  *)
(*         interleaved; SQLite's write lock serialises their transactions. *)
(* SpecF : the same callers with delete_club, add_player, transfer_player.  *)
(* SpecT : the transfer command on budgets at the end of the exact range.  *)
(* SpecM, SpecD, SpecL : the match_reminder task, interleaved with          *)
(*         handlers, over a stored table, and at its one-minute interval   *)
(*         under fairness.                                                 *)
(* SpecV : the confirmation dialogue of the reset_data command.            *)
(* SpecB : the start-up of the process.  SpecR : rate_limit_handler.       *)
(***************************************************************************)
EXTENDS Integers, Sequences, FiniteSets, TLC

\* ---- bounds and input sets ------------------------------------------------
MaxCalls == 2        \* handler calls in a run of Spec

Guilds == {1, 2}
ClubNames == {"Red", "Blue"}
PlayerNames == {"Alice", "Bob"}
Budgets == {-1, 0, 1}
Fees == {-1, 1}
Values == {1, 2}
Admins == {7}
MatchTimes == {5, 7}     \* scheduled minutes of the matches created
MaxNow == 3              \* the clock runs from 0 to MaxNow half minutes
Times == 0 .. MaxNow
MaxScans == 2            \* passes of the match_reminder task
MaxDialogs == 2          \* reset_data commands in a run of SpecV
Dialogs == 1 .. MaxDialogs
Users == Admins \cup {8}  \* the members who can press a button
LastMinute == 8          \* the clock of SpecL runs from 0 to 2 * LastMinute half minutes
MaxRetries == 1          \* restarts of the bot by start_bot in a run of SpecB
Threads == {"bot_thread", "main"}   \* the threads that call start_bot
MaxRequests == 3         \* command handlers that pass rate_limit_handler in SpecR
Requests == 1 .. MaxRequests
rate_limit_delay == 2    \* "self.rate_limit_delay = 1.0", in half seconds

\* the budgets and fees of SpecT, at the end of the exact range of a double
LargeBudgets == {5, 6, 7}
LargeFees == {1, 2}

\* the two interleaved callers of SpecI and what they call with
Procs == {1, 2}
StartBudgets == {0, 1}
FromClubs == {"Red", "Blue"}
ToClubs == {"Blue", "Green"}
TransferFees == {0, 1}
NewBudgets == {0, 2}

\* club_id IS NULL
NULL == 0
\* get_upcoming_matches(guild_id = None)
None == 0
\* "if 4 <= time_diff <= 6": the bounds of the notification window, in minutes
WindowLow == 4
WindowHigh == 6
\* cursor.fetchone() returned None
NoRow == [id |-> 0, guild_id |-> 0, name |-> "", budget |-> 0]

VARIABLES
    clubs,        \* committed rows of table clubs
    players,      \* committed rows of table players
    transfers,    \* committed rows of table transfers, in insertion order
    club_seq,     \* sqlite_sequence of clubs (AUTOINCREMENT never reuses an id)
    player_seq,   \* sqlite_sequence of players
    calls,        \* handler calls made so far (Spec)
    last,         \* the last handler that ran and what its Database call returned (Spec)
    pc,           \* SpecI: the statement each caller is at
    frame,        \* SpecI: each caller's arguments, locals and return value
    lock,         \* SpecI: the caller holding SQLite's write lock, 0 when free
    work,         \* SpecI: the uncommitted tables of the lock holder
    matches,      \* committed rows of table matches
    match_seq,    \* sqlite_sequence of matches
    bot_settings, \* committed rows of table bot_settings
    now,          \* SpecM: the clock, in half minutes
    scan,         \* SpecM: the running pass of the match_reminder task
    scan_log,     \* SpecM: the passes made so far, with the matches each selected
                  \* and those a reminder was sent for
    views,        \* SpecV: the confirmation dialogues of the reset_data command
    boot,         \* SpecB: the start-up of the process and what it has started
    limiter       \* SpecR: last_request_time and the handlers in rate_limit_handler

store == <<clubs, players, transfers, club_seq, player_seq>>
seqvars == <<calls, last>>
procvars == <<pc, frame, lock, work>>
matchvars == <<matches, match_seq, bot_settings>>
scanvars == <<now, scan, scan_log>>
sysvars == <<boot, limiter>>
vars == <<clubs, players, transfers, club_seq, player_seq, calls, last, pc, frame, lock, work,
          matches, match_seq, bot_settings, now, scan, scan_log, views, boot, limiter>>

\* ---- SQL statements as operators -------------------------------------------

\* mutant: the club is looked up by its name in every community
get_club_by_name_AnyGuild(cl, guild_id, name) ==
    IF \E c \in cl : c.name = name
    THEN CHOOSE c \in cl : c.name = name /\ \A d \in cl : d.name = name => c.id <= d.id
    ELSE NoRow

\* SELECT * FROM clubs WHERE guild_id = ? AND name = ?  ... fetchone()
get_club_by_name(cl, guild_id, name) ==
    IF \E c \in cl : c.guild_id = guild_id /\ c.name = name
    THEN CHOOSE c \in cl : c.guild_id = guild_id /\ c.name = name
    ELSE NoRow

\* mutant: clubs has no UNIQUE constraint
ClubExists_Never(cl, guild_id, name) == FALSE

\* UNIQUE(guild_id, name) of clubs: would the INSERT raise IntegrityError
ClubExists(cl, guild_id, name) ==
    \E c \in cl : c.guild_id = guild_id /\ c.name = name

\* mutant: players has no UNIQUE constraint
PlayerExists_Never(pl, guild_id, name) == FALSE

\* UNIQUE(guild_id, name) of players
PlayerExists(pl, guild_id, name) ==
    \E p \in pl : p.guild_id = guild_id /\ p.name = name

\* mutant: delete_club without the UPDATE (foreign keys are not enforced)
UnassignPlayers_Skipped(pl, club_id) == pl

\* mutant: the club's players are deleted with it
UnassignPlayers_Cascade(pl, club_id) == {p \in pl : p.club_id # club_id}

\* UPDATE players SET club_id = NULL WHERE club_id = ?
UnassignPlayers(pl, club_id) ==
    {IF p.club_id = club_id THEN [p EXCEPT !.club_id = NULL] ELSE p : p \in pl}

\* DELETE FROM clubs WHERE id = ?
DeleteClubRow(cl, club_id) == {c \in cl : c.id # club_id}

\* mutant: the update is not conditioned on the player's current club
TransferMatch_AnyClub(pl, guild_id, player_name, from_id) ==
    {p \in pl : p.guild_id = guild_id /\ p.name = player_name}

\* rows matched by
\* UPDATE players SET club_id = ? WHERE guild_id = ? AND name = ? AND club_id = ?
TransferMatch(pl, guild_id, player_name, from_id) ==
    {p \in pl : p.guild_id = guild_id /\ p.name = player_name /\ p.club_id = from_id}

\* UPDATE players SET club_id = ? WHERE guild_id = ? AND name = ? AND club_id = ?
UpdatePlayerClub(pl, to_id, guild_id, player_name, from_id) ==
    {IF p \in TransferMatch(pl, guild_id, player_name, from_id)
     THEN [p EXCEPT !.club_id = to_id] ELSE p : p \in pl}

\* "budget REAL": SQLite computes budget + ? and budget - ? in binary floating
\* point and stores the rounded result.  The model counts money in whole
\* units and keeps MantissaBits bits of a number, so that an integer below
\* 2^MantissaBits is exact, as an amount is in the 53 bits of a double.
MantissaBits == 3

\* the distance of neighbouring doubles at x >= 0
RECURSIVE Ulp(_)
Ulp(x) == IF x < 2 ^ MantissaBits THEN 1 ELSE 2 * Ulp(x \div 2)

\* x >= 0 rounded to a multiple of u, a tie to the even multiple
RoundTo(x, u) ==
    LET q == x \div u
        r == x % u
    IN  IF 2 * r < u THEN q * u
        ELSE IF 2 * r > u THEN (q + 1) * u
        ELSE IF q % 2 = 0 THEN q * u ELSE (q + 1) * u

\* the double nearest to x
Double(x) == IF x < 0 THEN -RoundTo(-x, Ulp(-x)) ELSE RoundTo(x, Ulp(x))


\* UPDATE clubs SET budget = budget + ? WHERE id = ?
AddBudget(cl, amount, club_id) ==
    {IF c.id = club_id THEN [c EXCEPT !.budget = Double(c.budget + amount)] ELSE c : c \in cl}

\* mutant: the fee is credited to the destination as well
SubBudget_Credits(cl, amount, club_id) ==
    {IF c.id = club_id THEN [c EXCEPT !.budget = c.budget + amount] ELSE c : c \in cl}

\* UPDATE clubs SET budget = budget - ? WHERE id = ?
SubBudget(cl, amount, club_id) ==
    {IF c.id = club_id THEN [c EXCEPT !.budget = Double(c.budget - amount)] ELSE c : c \in cl}

\* mutant: the uncommitted tables survive the exception
Rollback_KeepsWork(db, wk) == wk

\* Connection.__exit__ with an exception: the transaction is rolled back, the
\* committed tables (db) stay and the uncommitted ones (wk) are dropped
Rollback(db, wk) == db

\* "if not from_club_data or not to_club_data: return False"
ClubMissing(from_club_data, to_club_data) ==
    from_club_data = NoRow \/ to_club_data = NoRow

\* mutant: the budget must exceed the fee
BudgetTooLow_OffByOne(to_club_data, transfer_fee) == to_club_data.budget <= transfer_fee

\* "if to_club_data['budget'] < transfer_fee: return False"
BudgetTooLow(to_club_data, transfer_fee) == to_club_data.budget < transfer_fee

\* "if cursor.rowcount == 0: return False"
NoRowMatched(rowcount) == rowcount = 0

\* ---- Database.transfer_player as one uninterrupted call ----------------------
db_transfer_player(db, guild_id, player_name, from_club, to_club, transfer_fee) ==
    LET from_club_data == get_club_by_name(db.clubs, guild_id, from_club)
        to_club_data == get_club_by_name(db.clubs, guild_id, to_club)
        rejected == [clubs |-> db.clubs, players |-> db.players, ret |-> FALSE]
        players1 == UpdatePlayerClub(db.players, to_club_data.id, guild_id,
                                     player_name, from_club_data.id)
        rowcount == Cardinality(TransferMatch(db.players, guild_id, player_name,
                                              from_club_data.id))
        clubs1 == AddBudget(db.clubs, transfer_fee, from_club_data.id)
        clubs2 == SubBudget(clubs1, transfer_fee, to_club_data.id)
    IN  IF ClubMissing(from_club_data, to_club_data) THEN rejected
        ELSE IF BudgetTooLow(to_club_data, transfer_fee) THEN rejected
        ELSE IF NoRowMatched(rowcount)
             THEN [clubs |-> db.clubs, players |-> players1, ret |-> FALSE]
        ELSE [clubs |-> clubs2, players |-> players1, ret |-> TRUE]

\* mutant: the record is written twice
log_transfer_Twice(tr, guild_id, player_name, from_club, to_club, fee, admin_id, log_fails) ==
    IF log_fails THEN tr
    ELSE tr \o << [guild_id |-> guild_id, player_name |-> player_name,
                   from_club |-> from_club, to_club |-> to_club, fee |-> fee,
                   admin_id |-> admin_id],
                  [guild_id |-> guild_id, player_name |-> player_name,
                   from_club |-> from_club, to_club |-> to_club, fee |-> fee,
                   admin_id |-> admin_id] >>

\* mutant: the new record replaces the log
log_transfer_Overwrites(tr, guild_id, player_name, from_club, to_club, fee, admin_id, log_fails) ==
    IF log_fails THEN tr
    ELSE << [guild_id |-> guild_id, player_name |-> player_name,
             from_club |-> from_club, to_club |-> to_club, fee |-> fee,
             admin_id |-> admin_id] >>

\* INSERT INTO transfers (...) VALUES (...); an exception is logged and swallowed
log_transfer(tr, guild_id, player_name, from_club, to_club, fee, admin_id, log_fails) ==
    IF log_fails THEN tr
    ELSE Append(tr, [guild_id |-> guild_id, player_name |-> player_name,
                     from_club |-> from_club, to_club |-> to_club, fee |-> fee,
                     admin_id |-> admin_id])

\* SELECT p.*, c.name as club_name FROM players p LEFT JOIN clubs c
\* ON p.club_id = c.id WHERE p.guild_id = ?   (the rows, without their order)
get_all_players(pl, cl, guild_id) ==
    {[name |-> p.name, value |-> p.value,
      club_name |-> IF \E c \in cl : c.id = p.club_id
                    THEN (CHOOSE c \in cl : c.id = p.club_id).name
                    ELSE "NULL"] : p \in {q \in pl : q.guild_id = guild_id}}

\* SELECT * FROM clubs WHERE guild_id = ?   (the rows, without their order)
get_clubs(cl, guild_id) == {c \in cl : c.guild_id = guild_id}

\* SELECT p.*, c.name as club_name FROM players p LEFT JOIN clubs c ... WHERE
\* p.guild_id = ? ORDER BY p.value DESC LIMIT ?   (the rows, without their
\* order; the limit of 10 is above the number of rows of the model)
get_top_players(pl, cl, guild_id) == get_all_players(pl, cl, guild_id)

\* SELECT c.*, COUNT(p.id) as player_count FROM clubs c LEFT JOIN players p
\* ON c.id = p.club_id WHERE c.guild_id = ? GROUP BY c.id   (without the order)
get_richest_clubs(cl, pl, guild_id) ==
    {[name |-> c.name, budget |-> c.budget,
      player_count |-> Cardinality({p \in pl : p.club_id = c.id})]
        : c \in {d \in cl : d.guild_id = guild_id}}

\* SELECT * FROM transfers WHERE guild_id = ? ORDER BY date DESC LIMIT ?
\* (the rows in insertion order; the limit is above the rows of the model)
get_transfer_history(tr, guild_id) == SelectSeq(tr, LAMBDA t : t.guild_id = guild_id)

\* datetime.now().strftime('%Y-%m-%d %H:%M'): the minute a time t, in half
\* minutes, lies in
Minute(t) == t \div 2

\* A datetime string of the matches table is a number: n >= 0 is the string
\* '%Y-%m-%d %H:%M' of minute n, and Malformed(n) is that string followed by
\* one more character, which Database.create_match stores like any other
Malformed(n) == -(n + 1)

\* datetime.strptime(d, '%Y-%m-%d %H:%M') returns (it raises ValueError
\* otherwise)
Parses(d) == d >= 0

\* the place of a datetime string in the order of SQLite's text comparison:
\* a string with a trailing character sorts directly after the string itself
SortKey(d) == IF Parses(d) THEN 2 * d ELSE 2 * (-d - 1) + 1

\* mutant: the community is ignored
get_upcoming_matches_AllGuilds(ms, guild_id, t) ==
    {m \in ms : SortKey(m.datetime) > SortKey(Minute(t))}

\* SELECT * FROM matches WHERE [guild_id = ? AND] datetime > ?   (the rows,
\* without their order); "if guild_id:" is false for None
get_upcoming_matches(ms, guild_id, t) ==
    {m \in ms : /\ guild_id # None => m.guild_id = guild_id
                /\ SortKey(m.datetime) > SortKey(Minute(t))}

RECURSIVE SumValues(_)
SumValues(pl) ==
    IF pl = {} THEN 0
    ELSE LET p == CHOOSE x \in pl : TRUE IN p.value + SumValues(pl \ {p})

\* the five counts of Database.get_server_stats at time t
get_server_stats(db, guild_id, t) ==
    [total_clubs |-> Cardinality({c \in db.clubs : c.guild_id = guild_id}),
     total_players |-> Cardinality({p \in db.players : p.guild_id = guild_id}),
     upcoming_matches |-> Cardinality({m \in db.matches : m.guild_id = guild_id
                                     /\ SortKey(m.datetime) > SortKey(Minute(t))}),
     total_transfers |-> Len(SelectSeq(db.transfers, LAMBDA x : x.guild_id = guild_id)),
     total_value |-> SumValues({p \in db.players : p.guild_id = guild_id})]

\* ---- the callers' state -------------------------------------------------------
Call(op, ret) == [op |-> op, ret |-> ret]

NoWork == [clubs |-> {}, players |-> {}]

IdleFrame ==
    [op |-> "none", guild_id |-> 0, player |-> "", club |-> "", from_club |-> "",
     to_club |-> "", amount |-> 0, from_club_data |-> NoRow, to_club_data |-> NoRow,
     seen_clubs |-> {}, seen_players |-> {}, rowcount |-> 0,
     to_budget_at_write |-> 0, updates_done |-> 0, fault |-> FALSE, ret |-> FALSE,
     raised |-> FALSE]

\* The database file outlives the process (CREATE TABLE IF NOT EXISTS keeps the
\* rows).  A run starts on the empty store or on a store that earlier calls
\* left: create_club(1, "Red", 1), create_club(1, "Blue", 1),
\* create_club(2, "Red", 1), add_player(1, "Alice", "Red", 2),
\* add_player(1, "Bob", bob_club, 1), add_player(2, "Alice", "Red", 1).
SeedClubs ==
    {[id |-> 1, guild_id |-> 1, name |-> "Red", budget |-> 1],
     [id |-> 2, guild_id |-> 1, name |-> "Blue", budget |-> 1],
     [id |-> 3, guild_id |-> 2, name |-> "Red", budget |-> 1]}

SeedPlayers(bob_club_id) ==
    {[id |-> 1, guild_id |-> 1, name |-> "Alice", club_id |-> 1, value |-> 2],
     [id |-> 2, guild_id |-> 1, name |-> "Bob", club_id |-> bob_club_id, value |-> 1],
     [id |-> 3, guild_id |-> 2, name |-> "Alice", club_id |-> 3, value |-> 1]}

\* no pass of the match_reminder task is running
IdleScan == [pc |-> "idle", at |-> 0, todo |-> <<>>]

InitMatches ==
    /\ matches = {}
    /\ match_seq = 0
    /\ bot_settings = {}

InitScan ==
    /\ now = 0
    /\ scan = IdleScan
    /\ scan_log = <<>>

\* no reset_data command has been given
NoView == [state |-> "none", user |-> 0, guild_id |-> 0, by |-> 0]

InitViews == views = [d \in Dialogs |-> NoView]

\* the interpreter has not begun to execute main.py
NoBoot ==
    [mode |-> "none", token |-> FALSE, pc |-> "off", db_failed |-> FALSE, dbs |-> 0,
     keep_alive |-> 0, start_bot |-> [t \in Threads |-> "none"], match_reminder |-> 0,
     retries |-> 0]

\* "self.last_request_time = 0" and no handler inside rate_limit_handler
NoRequest == [pc |-> "out", wake |-> 0, left_at |-> 0]

InitLimiter == [last_request_time |-> 0, req |-> [r \in Requests |-> NoRequest]]

InitSys ==
    /\ boot = NoBoot
    /\ limiter = InitLimiter

InitCallers ==
    /\ pc = [p \in Procs |-> "idle"]
    /\ frame = [p \in Procs |-> IdleFrame]
    /\ lock = 0
    /\ work = NoWork
    /\ calls = 0
    /\ last = Call("init", TRUE)

Init ==
    /\ \/ /\ clubs = {}
          /\ players = {}
          /\ club_seq = 0
          /\ player_seq = 0
       \/ \E bob_club_id \in {1, 2} :
             /\ clubs = SeedClubs
             /\ players = SeedPlayers(bob_club_id)
             /\ club_seq = 3
             /\ player_seq = 3
    /\ transfers = <<>>
    /\ InitMatches
    /\ InitScan
    /\ InitCallers
    /\ InitViews
    /\ InitSys

\* ---- command handlers (src/bot.py) with the Database method they call ------

\* a handler call of Spec: counted, and no interleaved caller moves
Counted ==
    /\ calls < MaxCalls
    /\ calls' = calls + 1
    /\ UNCHANGED procvars

\* Database.create_club run on the current store
create_club_result(guild_id, name, budget) ==
    IF ClubExists(clubs, guild_id, name)
    THEN [clubs |-> clubs, club_seq |-> club_seq, ret |-> FALSE]
    ELSE [clubs |-> clubs \cup {[id |-> club_seq + 1, guild_id |-> guild_id,
                                 name |-> name, budget |-> budget]},
          club_seq |-> club_seq + 1, ret |-> TRUE]

create_club(guild_id, name, budget) ==
    LET r == create_club_result(guild_id, name, budget)
    IN  /\ Counted
        /\ clubs' = r.clubs
        /\ club_seq' = r.club_seq
        /\ last' = Call("create_club", r.ret)
        /\ UNCHANGED <<players, transfers, player_seq, matchvars, scanvars, views, sysvars>>

\* Database.delete_club run on the current store
delete_club_result(guild_id, name) ==
    LET club == get_club_by_name(clubs, guild_id, name)
    IN  IF club = NoRow
        THEN [clubs |-> clubs, players |-> players, ret |-> FALSE]
        ELSE [clubs |-> DeleteClubRow(clubs, club.id),
              players |-> UnassignPlayers(players, club.id), ret |-> TRUE]

delete_club(guild_id, name) ==
    LET r == delete_club_result(guild_id, name)
    IN  /\ Counted
        /\ clubs' = r.clubs
        /\ players' = r.players
        /\ last' = Call("delete_club", r.ret)
        /\ UNCHANGED <<transfers, club_seq, player_seq, matchvars, scanvars, views, sysvars>>

\* Database.update_club_budget run on the current store
update_club_budget_result(guild_id, name, budget) ==
    LET rows == {c \in clubs : c.guild_id = guild_id /\ c.name = name}
    IN  [clubs |-> {IF c \in rows THEN [c EXCEPT !.budget = budget] ELSE c : c \in clubs},
         ret |-> rows # {}]

update_club_budget(guild_id, name, budget) ==
    LET r == update_club_budget_result(guild_id, name, budget)
    IN  /\ Counted
        /\ clubs' = r.clubs
        /\ last' = Call("update_club_budget", r.ret)
        /\ UNCHANGED <<players, transfers, club_seq, player_seq, matchvars, scanvars, views, sysvars>>

\* Database.add_player run on the current store
add_player_result(guild_id, name, club_name, value) ==
    LET club == get_club_by_name(clubs, guild_id, club_name)
    IN  IF club = NoRow \/ PlayerExists(players, guild_id, name)
        THEN [players |-> players, player_seq |-> player_seq, ret |-> FALSE]
        ELSE [players |-> players \cup {[id |-> player_seq + 1, guild_id |-> guild_id,
                                         name |-> name, club_id |-> club.id,
                                         value |-> value]},
              player_seq |-> player_seq + 1, ret |-> TRUE]

add_player(guild_id, name, club_name, value) ==
    LET r == add_player_result(guild_id, name, club_name, value)
    IN  /\ Counted
        /\ players' = r.players
        /\ player_seq' = r.player_seq
        /\ last' = Call("add_player", r.ret)
        /\ UNCHANGED <<clubs, transfers, club_seq, matchvars, scanvars, views, sysvars>>

\* Database.remove_player run on the current store
remove_player_result(guild_id, name) ==
    LET rows == {p \in players : p.guild_id = guild_id /\ p.name = name}
    IN  [players |-> players \ rows, ret |-> rows # {}]

remove_player(guild_id, name) ==
    LET r == remove_player_result(guild_id, name)
    IN  /\ Counted
        /\ players' = r.players
        /\ last' = Call("remove_player", r.ret)
        /\ UNCHANGED <<clubs, transfers, club_seq, player_seq, matchvars, scanvars, views, sysvars>>

\* mutant: the UPDATE is not scoped by the community
update_player_value_result_AnyGuild(guild_id, name, value) ==
    LET rows == {p \in players : p.name = name}
    IN  [players |-> {IF p \in rows THEN [p EXCEPT !.value = value] ELSE p : p \in players},
         ret |-> rows # {}]

\* Database.update_player_value run on the current store
update_player_value_result(guild_id, name, value) ==
    LET rows == {p \in players : p.guild_id = guild_id /\ p.name = name}
    IN  [players |-> {IF p \in rows THEN [p EXCEPT !.value = value] ELSE p : p \in players},
         ret |-> rows # {}]

update_player_value(guild_id, name, value) ==
    LET r == update_player_value_result(guild_id, name, value)
    IN  /\ Counted
        /\ players' = r.players
        /\ last' = Call("update_player_value", r.ret)
        /\ UNCHANGED <<clubs, transfers, club_seq, player_seq, matchvars, scanvars, views, sysvars>>

\* mutant: a match is created Notified
ReminderDefault_True == TRUE

\* reminder_sent BOOLEAN DEFAULT FALSE
ReminderDefault == FALSE

\* Database.create_match run on the current store; the row's teams and
\* description are not modelled.  Returns cursor.lastrowid
create_match_result(guild_id, datetime_str) ==
    [matches |-> matches \cup {[id |-> match_seq + 1, guild_id |-> guild_id,
                                datetime |-> datetime_str,
                                reminder_sent |-> ReminderDefault]},
     match_seq |-> match_seq + 1, ret |-> match_seq + 1]

\* the create_match command: "datetime.strptime(match_datetime, ...)" raises
\* ValueError for a date and time of another format and nothing is stored
create_match(guild_id, datetime_str) ==
    LET r == create_match_result(guild_id, datetime_str)
    IN  /\ Counted
        /\ IF Parses(datetime_str)
           THEN /\ matches' = r.matches
                /\ match_seq' = r.match_seq
                /\ last' = Call("create_match", r.ret # 0)
           ELSE /\ UNCHANGED <<matches, match_seq>>
                /\ last' = Call("create_match", FALSE)
        /\ UNCHANGED <<store, bot_settings, scanvars, views, sysvars>>

\* mutant: log_transfer is called whatever transfer_player returned
LogsTransfer_Always(success) == TRUE

\* "if success:" of the transfer_player command: log_transfer is called then
LogsTransfer(success) == success

\* the transfer_player command run on the current store: Database.transfer_player,
\* then log_transfer when it returned True
transfer_player_result(guild_id, player, from_club, to_club, transfer_fee, admin_id, log_fails) ==
    LET r == db_transfer_player([clubs |-> clubs, players |-> players], guild_id,
                                player, from_club, to_club, transfer_fee)
    IN  [clubs |-> r.clubs, players |-> r.players,
         transfers |-> IF LogsTransfer(r.ret)
                       THEN log_transfer(transfers, guild_id, player, from_club, to_club,
                                         transfer_fee, admin_id, log_fails)
                       ELSE transfers,
         ret |-> r.ret]

transfer_player(guild_id, player, from_club, to_club, transfer_fee, admin_id, log_fails) ==
    LET r == transfer_player_result(guild_id, player, from_club, to_club, transfer_fee,
                                    admin_id, log_fails)
    IN  /\ Counted
        /\ clubs' = r.clubs
        /\ players' = r.players
        /\ transfers' = r.transfers
        /\ last' = Call("transfer_player", r.ret)
        /\ UNCHANGED <<club_seq, player_seq, matchvars, scanvars, views, sysvars>>

\* mutant: the matches are kept
reset_all_data_result_KeepsMatches(guild_id) ==
    [transfers |-> SelectSeq(transfers, LAMBDA t : t.guild_id # guild_id),
     matches |-> matches,
     players |-> {p \in players : p.guild_id # guild_id},
     clubs |-> {c \in clubs : c.guild_id # guild_id},
     bot_settings |-> {b \in bot_settings : b.guild_id # guild_id}]

\* Database.reset_all_data run on the current store: the five DELETEs
reset_all_data_result(guild_id) ==
    [transfers |-> SelectSeq(transfers, LAMBDA t : t.guild_id # guild_id),
     matches |-> {m \in matches : m.guild_id # guild_id},
     players |-> {p \in players : p.guild_id # guild_id},
     clubs |-> {c \in clubs : c.guild_id # guild_id},
     bot_settings |-> {b \in bot_settings : b.guild_id # guild_id}]

\* the CONFIRM RESET button: Database.reset_all_data
reset_all_data(guild_id) ==
    LET r == reset_all_data_result(guild_id)
    IN  /\ Counted
        /\ transfers' = r.transfers
        /\ matches' = r.matches
        /\ players' = r.players
        /\ clubs' = r.clubs
        /\ bot_settings' = r.bot_settings
        /\ last' = Call("reset_all_data", TRUE)
        /\ UNCHANGED <<club_seq, player_seq, match_seq, scanvars, views, sysvars>>

Next ==
    \/ \E g \in Guilds, n \in ClubNames, b \in Budgets : create_club(g, n, b)
    \/ \E g \in Guilds, n \in ClubNames : delete_club(g, n)
    \/ \E g \in Guilds, n \in ClubNames, b \in Budgets : update_club_budget(g, n, b)
    \/ \E g \in Guilds, n \in PlayerNames, c \in ClubNames, v \in Values :
          add_player(g, n, c, v)
    \/ \E g \in Guilds, n \in PlayerNames : remove_player(g, n)
    \/ \E g \in Guilds, n \in PlayerNames, v \in Values : update_player_value(g, n, v)
    \/ \E g \in Guilds, p \in PlayerNames, f \in ClubNames, t \in ClubNames,
          fee \in Fees, a \in Admins, lf \in BOOLEAN :
          transfer_player(g, p, f, t, fee, a, lf)
    \/ \E g \in Guilds : reset_all_data(g)
    \/ \E g \in Guilds, d \in MatchTimes : create_match(g, d)

Spec == Init /\ [][Next]_vars

\* ---- the transfer command on budgets that need every bit (SpecT) -------------
InitT ==
    /\ \E b_red \in LargeBudgets, b_blue \in LargeBudgets :
          clubs = {[id |-> 1, guild_id |-> 1, name |-> "Red", budget |-> b_red],
                   [id |-> 2, guild_id |-> 1, name |-> "Blue", budget |-> b_blue]}
    /\ players = {[id |-> 1, guild_id |-> 1, name |-> "Alice", club_id |-> 1, value |-> 2],
                  [id |-> 2, guild_id |-> 1, name |-> "Bob", club_id |-> 2, value |-> 1]}
    /\ club_seq = 2
    /\ player_seq = 2
    /\ transfers = <<>>
    /\ InitMatches
    /\ InitScan
    /\ InitCallers
    /\ InitViews
    /\ InitSys

NextT ==
    \E p \in PlayerNames, f \in ClubNames, t \in ClubNames, fee \in LargeFees,
       a \in Admins, lf \in BOOLEAN :
       transfer_player(1, p, f, t, fee, a, lf)

SpecT == InitT /\ [][NextT]_vars

\* ---- two interleaved callers of the Database (SpecI) ------------------------
\* The handlers of src/bot.py call the Database synchronously from one event
\* loop, so the calls of one bot process run one at a time (Spec).  The Database
\* itself opens a connection per call on a shared file and takes no lock of its
\* own: two callers on the same file (two processes of the bot, or two threads
\* holding a Database each, as src/web_server.py does) interleave as below.
\* Each caller makes one call, statement by statement.  A SELECT reads the
\* committed tables.  The first UPDATE of a connection begins its transaction
\* and takes SQLite's write lock; until the commit or the rollback the changes
\* are in the connection's own copy (work) and no other connection sees them.

\* the store SpecI starts on: three clubs of community 1 and two players, left
\* by create_club and add_player calls
StartClubs(b_blue, b_green) ==
    {[id |-> 1, guild_id |-> 1, name |-> "Red", budget |-> 0],
     [id |-> 2, guild_id |-> 1, name |-> "Blue", budget |-> b_blue],
     [id |-> 3, guild_id |-> 1, name |-> "Green", budget |-> b_green]}

StartPlayers ==
    {[id |-> 1, guild_id |-> 1, name |-> "Alice", club_id |-> 1, value |-> 2],
     [id |-> 2, guild_id |-> 1, name |-> "Bob", club_id |-> 2, value |-> 1]}

\* left by the transfer command (Bob from Red to Blue for 0) and by create_match
StartTransfers ==
    <<[guild_id |-> 1, player_name |-> "Bob", from_club |-> "Red", to_club |-> "Blue",
       fee |-> 0, admin_id |-> 7]>>

StartMatches == {[id |-> 1, guild_id |-> 1, datetime |-> 5, reminder_sent |-> ReminderDefault]}

InitI ==
    /\ \E b_blue \in StartBudgets, b_green \in StartBudgets :
          clubs = StartClubs(b_blue, b_green)
    /\ players = StartPlayers
    /\ club_seq = 3
    /\ player_seq = 2
    /\ transfers = StartTransfers
    /\ matches = StartMatches
    /\ match_seq = 1
    /\ bot_settings = {}
    /\ InitScan
    /\ InitCallers
    /\ InitViews
    /\ InitSys

\* caller p returns ret from its call
Return(p, ret) ==
    /\ pc' = [pc EXCEPT ![p] = "done"]
    /\ frame' = [frame EXCEPT ![p].ret = ret]

\* conn.commit(): the connection's tables become the committed ones
Commit(wk) == wk

\* Database.transfer_player is called
call_transfer_player(p, guild_id, player_name, from_club, to_club, transfer_fee) ==
    /\ pc[p] = "idle"
    /\ pc' = [pc EXCEPT ![p] = "t_get_from"]
    /\ frame' = [frame EXCEPT ![p] =
                    [IdleFrame EXCEPT !.op = "transfer_player", !.guild_id = guild_id,
                                      !.player = player_name, !.from_club = from_club,
                                      !.to_club = to_club, !.amount = transfer_fee,
                                      !.seen_clubs = clubs, !.seen_players = players]]
    /\ UNCHANGED <<store, seqvars, matchvars, scanvars, views, sysvars, lock, work>>

\* from_club_data = self.get_club_by_name(guild_id, from_club)
t_get_from(p) ==
    /\ pc[p] = "t_get_from"
    /\ pc' = [pc EXCEPT ![p] = "t_get_to"]
    /\ frame' = [frame EXCEPT ![p].from_club_data =
                    get_club_by_name(clubs, frame[p].guild_id, frame[p].from_club)]
    /\ UNCHANGED <<store, seqvars, matchvars, scanvars, views, sysvars, lock, work>>

\* to_club_data = self.get_club_by_name(guild_id, to_club), and the two checks
\* on what was read
t_get_to(p) ==
    LET to_club_data == get_club_by_name(clubs, frame[p].guild_id, frame[p].to_club)
    IN  /\ pc[p] = "t_get_to"
        /\ IF \/ ClubMissing(frame[p].from_club_data, to_club_data)
              \/ BudgetTooLow(to_club_data, frame[p].amount)
           THEN /\ pc' = [pc EXCEPT ![p] = "done"]
                /\ frame' = [frame EXCEPT ![p].to_club_data = to_club_data,
                                          ![p].ret = FALSE]
           ELSE /\ pc' = [pc EXCEPT ![p] = "t_upd_player"]
                /\ frame' = [frame EXCEPT ![p].to_club_data = to_club_data]
        /\ UNCHANGED <<store, seqvars, matchvars, scanvars, views, sysvars, lock, work>>

\* UPDATE players SET club_id = ? WHERE ... AND club_id = ?, and the rowcount
\* check; with no row matched the call returns False and the empty
\* transaction is committed
t_upd_player(p) ==
    LET f == frame[p]
        rowcount == Cardinality(TransferMatch(players, f.guild_id, f.player,
                                              f.from_club_data.id))
        players1 == UpdatePlayerClub(players, f.to_club_data.id, f.guild_id, f.player,
                                     f.from_club_data.id)
    IN  /\ pc[p] = "t_upd_player"
        /\ lock = 0
        /\ IF NoRowMatched(rowcount)
           THEN /\ pc' = [pc EXCEPT ![p] = "done"]
                /\ frame' = [frame EXCEPT ![p].rowcount = rowcount, ![p].ret = FALSE]
                /\ players' = Commit(players1)
                /\ UNCHANGED <<lock, work>>
           ELSE /\ pc' = [pc EXCEPT ![p] = "t_upd_from"]
                /\ frame' = [frame EXCEPT ![p].rowcount = rowcount,
                                          ![p].updates_done = 1]
                /\ lock' = p
                /\ work' = [clubs |-> clubs, players |-> players1]
                /\ UNCHANGED players
        /\ UNCHANGED <<clubs, transfers, club_seq, player_seq, seqvars, matchvars, scanvars, views, sysvars>>

\* UPDATE clubs SET budget = budget + ? WHERE id = ?
t_upd_from(p) ==
    /\ pc[p] = "t_upd_from"
    /\ pc' = [pc EXCEPT ![p] = "t_upd_to"]
    /\ work' = [work EXCEPT !.clubs = AddBudget(work.clubs, frame[p].amount,
                                                frame[p].from_club_data.id)]
    /\ frame' = [frame EXCEPT ![p].updates_done = 2]
    /\ UNCHANGED <<store, seqvars, matchvars, scanvars, views, sysvars, lock>>

\* UPDATE clubs SET budget = budget - ? WHERE id = ?
t_upd_to(p) ==
    /\ pc[p] = "t_upd_to"
    /\ pc' = [pc EXCEPT ![p] = "t_commit"]
    /\ work' = [work EXCEPT !.clubs = SubBudget(work.clubs, frame[p].amount,
                                                frame[p].to_club_data.id)]
    /\ frame' = [frame EXCEPT ![p].updates_done = 3,
                              ![p].to_budget_at_write =
                                  IF \E c \in work.clubs : c.id = frame[p].to_club_data.id
                                  THEN (CHOOSE c \in work.clubs :
                                           c.id = frame[p].to_club_data.id).budget
                                  ELSE 0]
    /\ UNCHANGED <<store, seqvars, matchvars, scanvars, views, sysvars, lock>>

\* conn.commit(); return True
t_commit(p) ==
    /\ pc[p] = "t_commit"
    /\ clubs' = Commit(work).clubs
    /\ players' = Commit(work).players
    /\ lock' = 0
    /\ work' = NoWork
    /\ Return(p, TRUE)
    /\ UNCHANGED <<transfers, club_seq, player_seq, seqvars, matchvars, scanvars, views, sysvars>>

\* a statement after the first, second or third UPDATE raises: the with block
\* rolls the transaction back and the except clause returns False
t_fail(p) ==
    /\ pc[p] \in {"t_upd_from", "t_upd_to", "t_commit"}
    /\ LET db == Rollback([clubs |-> clubs, players |-> players], work)
       IN  /\ clubs' = db.clubs
           /\ players' = db.players
    /\ lock' = 0
    /\ work' = NoWork
    /\ pc' = [pc EXCEPT ![p] = "done"]
    /\ frame' = [frame EXCEPT ![p].fault = TRUE, ![p].ret = FALSE]
    /\ UNCHANGED <<transfers, club_seq, player_seq, seqvars, matchvars, scanvars, views, sysvars>>

\* Database.update_club_budget is called
call_update_club_budget(p, guild_id, name, budget) ==
    /\ pc[p] = "idle"
    /\ pc' = [pc EXCEPT ![p] = "u_update"]
    /\ frame' = [frame EXCEPT ![p] =
                    [IdleFrame EXCEPT !.op = "update_club_budget", !.guild_id = guild_id,
                                      !.club = name, !.amount = budget,
                                      !.seen_clubs = clubs, !.seen_players = players]]
    /\ UNCHANGED <<store, seqvars, matchvars, scanvars, views, sysvars, lock, work>>

\* UPDATE clubs SET budget = ? WHERE guild_id = ? AND name = ?
u_update(p) ==
    LET rows == {c \in clubs : c.guild_id = frame[p].guild_id /\ c.name = frame[p].club}
    IN  /\ pc[p] = "u_update"
        /\ lock = 0
        /\ lock' = p
        /\ work' = [clubs |-> {IF c \in rows THEN [c EXCEPT !.budget = frame[p].amount]
                               ELSE c : c \in clubs},
                    players |-> players]
        /\ pc' = [pc EXCEPT ![p] = "u_commit"]
        /\ frame' = [frame EXCEPT ![p].rowcount = Cardinality(rows)]
        /\ UNCHANGED <<store, seqvars, matchvars, scanvars, views, sysvars>>

\* conn.commit(); return cursor.rowcount > 0
u_commit(p) ==
    /\ pc[p] = "u_commit"
    /\ clubs' = Commit(work).clubs
    /\ players' = Commit(work).players
    /\ lock' = 0
    /\ work' = NoWork
    /\ Return(p, frame[p].rowcount > 0)
    /\ UNCHANGED <<transfers, club_seq, player_seq, seqvars, matchvars, scanvars, views, sysvars>>

\* the write lock is held by the other connection for longer than the
\* connection's timeout: the UPDATE raises "database is locked", the except
\* clause returns False
busy(p) ==
    /\ \/ pc[p] \in {"t_upd_player", "u_update", "d_upd_players", "a_insert"}
       \/ pc[p] = "r_delete" /\ frame[p].updates_done = 0
    /\ lock \notin {0, p}
    /\ Return(p, FALSE)
    /\ UNCHANGED <<store, seqvars, matchvars, scanvars, views, sysvars, lock, work>>

\* the tables Database.reset_all_data deletes from, in its order
ResetOrder == <<"transfers", "matches", "players", "clubs", "bot_settings">>

\* DELETE FROM <table> WHERE guild_id = ?, on the tables wk of the connection
DeleteFrom(table, wk, guild_id) ==
    IF table = "transfers"
    THEN [wk EXCEPT !.transfers = SelectSeq(wk.transfers, LAMBDA t : t.guild_id # guild_id)]
    ELSE [wk EXCEPT ![table] = {r \in wk[table] : r.guild_id # guild_id}]

\* the committed tables, as one record
Committed ==
    [transfers |-> transfers, matches |-> matches, players |-> players, clubs |-> clubs,
     bot_settings |-> bot_settings]

\* mutant: the deletions made before the exception stay
ResetRollback_KeepsDeletes(db, wk) == wk

\* reset_all_data's with block left by an exception: the transaction is rolled
\* back, then the exception is raised again
ResetRollback(db, wk) == db

\* Database.reset_all_data is called
call_reset_all_data(p, guild_id) ==
    /\ pc[p] = "idle"
    /\ pc' = [pc EXCEPT ![p] = "r_delete"]
    /\ frame' = [frame EXCEPT ![p] =
                    [IdleFrame EXCEPT !.op = "reset_all_data", !.guild_id = guild_id,
                                      !.seen_clubs = clubs, !.seen_players = players]]
    /\ UNCHANGED <<store, seqvars, matchvars, scanvars, views, sysvars, lock, work>>

\* the next of the five DELETEs; the first begins the transaction
r_delete(p) ==
    LET k == frame[p].updates_done + 1
        wk == IF k = 1 THEN Committed ELSE work
    IN  /\ pc[p] = "r_delete"
        /\ IF k = 1 THEN lock = 0 ELSE lock = p
        /\ lock' = p
        /\ work' = DeleteFrom(ResetOrder[k], wk, frame[p].guild_id)
        /\ frame' = [frame EXCEPT ![p].updates_done = k]
        /\ pc' = [pc EXCEPT ![p] = IF k = Len(ResetOrder) THEN "r_commit" ELSE "r_delete"]
        /\ UNCHANGED <<store, seqvars, matchvars, scanvars, views, sysvars>>

\* conn.commit()
r_commit(p) ==
    /\ pc[p] = "r_commit"
    /\ transfers' = Commit(work).transfers
    /\ matches' = Commit(work).matches
    /\ players' = Commit(work).players
    /\ clubs' = Commit(work).clubs
    /\ bot_settings' = Commit(work).bot_settings
    /\ lock' = 0
    /\ work' = NoWork
    /\ Return(p, TRUE)
    /\ UNCHANGED <<club_seq, player_seq, match_seq, seqvars, scanvars, views, sysvars>>

\* a statement after one of the DELETEs raises: rollback, and the exception
\* is logged and raised to the caller ("except Exception as e: ...; raise"),
\* so the call returns no value
r_fail(p) ==
    /\ \/ pc[p] = "r_delete" /\ frame[p].updates_done > 0
       \/ pc[p] = "r_commit"
    /\ LET db == ResetRollback(Committed, work)
       IN  /\ transfers' = db.transfers
           /\ matches' = db.matches
           /\ players' = db.players
           /\ clubs' = db.clubs
           /\ bot_settings' = db.bot_settings
    /\ lock' = 0
    /\ work' = NoWork
    /\ pc' = [pc EXCEPT ![p] = "done"]
    /\ frame' = [frame EXCEPT ![p].fault = TRUE, ![p].ret = FALSE, ![p].raised = TRUE]
    /\ UNCHANGED <<club_seq, player_seq, match_seq, seqvars, scanvars, views, sysvars>>

NextI ==
    \/ \E p \in Procs, n \in PlayerNames, f \in FromClubs, t \in ToClubs,
          fee \in TransferFees : call_transfer_player(p, 1, n, f, t, fee)
    \/ \E p \in Procs : t_get_from(p)
    \/ \E p \in Procs : t_get_to(p)
    \/ \E p \in Procs : t_upd_player(p)
    \/ \E p \in Procs : t_upd_from(p)
    \/ \E p \in Procs : t_upd_to(p)
    \/ \E p \in Procs : t_commit(p)
    \/ \E p \in Procs : t_fail(p)
    \/ \E p \in Procs, n \in ToClubs, b \in NewBudgets : call_update_club_budget(p, 1, n, b)
    \/ \E p \in Procs : u_update(p)
    \/ \E p \in Procs : u_commit(p)
    \/ \E p \in Procs : busy(p)
    \/ \E p \in Procs : call_reset_all_data(p, 1)
    \/ \E p \in Procs : r_delete(p)
    \/ \E p \in Procs : r_commit(p)
    \/ \E p \in Procs : r_fail(p)

SpecI == InitI /\ [][NextI]_vars

\* ---- delete_club interleaved with add_player and transfer_player (SpecF) ------
\* The same callers as in SpecI.  The schema declares players.club_id as
\* "FOREIGN KEY (club_id) REFERENCES clubs (id)", and get_connection does not
\* execute "PRAGMA foreign_keys = ON": SQLite does not enforce the reference.

\* Database.delete_club is called
call_delete_club(p, guild_id, name) ==
    /\ pc[p] = "idle"
    /\ pc' = [pc EXCEPT ![p] = "d_get"]
    /\ frame' = [frame EXCEPT ![p] =
                    [IdleFrame EXCEPT !.op = "delete_club", !.guild_id = guild_id,
                                      !.club = name]]
    /\ UNCHANGED <<store, seqvars, matchvars, scanvars, views, sysvars, lock, work>>

\* SELECT id FROM clubs WHERE guild_id = ? AND name = ?; "if not club: return False"
d_get(p) ==
    LET club == get_club_by_name(clubs, frame[p].guild_id, frame[p].club)
    IN  /\ pc[p] = "d_get"
        /\ IF club = NoRow
           THEN Return(p, FALSE)
           ELSE /\ pc' = [pc EXCEPT ![p] = "d_upd_players"]
                /\ frame' = [frame EXCEPT ![p].from_club_data = club]
        /\ UNCHANGED <<store, seqvars, matchvars, scanvars, views, sysvars, lock, work>>

\* UPDATE players SET club_id = NULL WHERE club_id = ?
d_upd_players(p) ==
    /\ pc[p] = "d_upd_players"
    /\ lock = 0
    /\ lock' = p
    /\ work' = [clubs |-> clubs,
                players |-> UnassignPlayers(players, frame[p].from_club_data.id)]
    /\ pc' = [pc EXCEPT ![p] = "d_delete"]
    /\ frame' = [frame EXCEPT ![p].updates_done = 1]
    /\ UNCHANGED <<store, seqvars, matchvars, scanvars, views, sysvars>>

\* DELETE FROM clubs WHERE id = ?
d_delete(p) ==
    /\ pc[p] = "d_delete"
    /\ work' = [work EXCEPT !.clubs = DeleteClubRow(work.clubs, frame[p].from_club_data.id)]
    /\ pc' = [pc EXCEPT ![p] = "d_commit"]
    /\ frame' = [frame EXCEPT ![p].updates_done = 2]
    /\ UNCHANGED <<store, seqvars, matchvars, scanvars, views, sysvars, lock>>

\* conn.commit(); return True
d_commit(p) ==
    /\ pc[p] = "d_commit"
    /\ clubs' = Commit(work).clubs
    /\ players' = Commit(work).players
    /\ lock' = 0
    /\ work' = NoWork
    /\ Return(p, TRUE)
    /\ UNCHANGED <<transfers, club_seq, player_seq, seqvars, matchvars, scanvars, views, sysvars>>

\* Database.add_player is called
call_add_player(p, guild_id, name, club_name, value) ==
    /\ pc[p] = "idle"
    /\ pc' = [pc EXCEPT ![p] = "a_get"]
    /\ frame' = [frame EXCEPT ![p] =
                    [IdleFrame EXCEPT !.op = "add_player", !.guild_id = guild_id,
                                      !.player = name, !.club = club_name,
                                      !.amount = value]]
    /\ UNCHANGED <<store, seqvars, matchvars, scanvars, views, sysvars, lock, work>>

\* club = self.get_club_by_name(guild_id, club_name), on a connection of its
\* own; "if not club: return False"
a_get(p) ==
    LET club == get_club_by_name(clubs, frame[p].guild_id, frame[p].club)
    IN  /\ pc[p] = "a_get"
        /\ IF club = NoRow
           THEN Return(p, FALSE)
           ELSE /\ pc' = [pc EXCEPT ![p] = "a_insert"]
                /\ frame' = [frame EXCEPT ![p].to_club_data = club]
        /\ UNCHANGED <<store, seqvars, matchvars, scanvars, views, sysvars, lock, work>>

\* INSERT INTO players (..., club_id, ...) VALUES (..., club['id'], ...);
\* conn.commit(); return True, or IntegrityError and return False
a_insert(p) ==
    LET f == frame[p]
    IN  /\ pc[p] = "a_insert"
        /\ lock = 0
        /\ IF PlayerExists(players, f.guild_id, f.player)
           THEN /\ Return(p, FALSE)
                /\ UNCHANGED <<players, player_seq>>
           ELSE /\ players' = players \cup {[id |-> player_seq + 1, guild_id |-> f.guild_id,
                                             name |-> f.player, club_id |-> f.to_club_data.id,
                                             value |-> f.amount]}
                /\ player_seq' = player_seq + 1
                /\ Return(p, TRUE)
        /\ UNCHANGED <<clubs, transfers, club_seq, seqvars, matchvars, scanvars, views, sysvars, lock, work>>

NextF ==
    \/ \E p \in Procs, n \in ToClubs : call_delete_club(p, 1, n)
    \/ \E p \in Procs : d_get(p)
    \/ \E p \in Procs : d_upd_players(p)
    \/ \E p \in Procs : d_delete(p)
    \/ \E p \in Procs : d_commit(p)
    \/ \E p \in Procs, n \in {"Bob", "Carol"}, c \in ToClubs : call_add_player(p, 1, n, c, 1)
    \/ \E p \in Procs : a_get(p)
    \/ \E p \in Procs : a_insert(p)
    \/ \E p \in Procs, t \in ToClubs : call_transfer_player(p, 1, "Alice", "Red", t, 0)
    \/ \E p \in Procs : t_get_from(p)
    \/ \E p \in Procs : t_get_to(p)
    \/ \E p \in Procs : t_upd_player(p)
    \/ \E p \in Procs : t_upd_from(p)
    \/ \E p \in Procs : t_upd_to(p)
    \/ \E p \in Procs : t_commit(p)
    \/ \E p \in Procs : t_fail(p)
    \/ \E p \in Procs : busy(p)

SpecF == InitI /\ [][NextF]_vars

\* ---- the match_reminder task and the handlers it interleaves with (SpecM) ---
\* The task and the command handlers run on one event loop: a handler runs
\* only while no pass is running or while the pass is suspended in
\* "await self.send_match_reminder(match)".  Time is counted in half minutes;
\* the datetime of a match is a whole minute.

InitM ==
    /\ clubs = {}
    /\ players = {}
    /\ transfers = <<>>
    /\ club_seq = 0
    /\ player_seq = 0
    /\ InitMatches
    /\ InitScan
    /\ InitCallers
    /\ InitViews
    /\ InitSys

\* the results "ORDER BY datetime ASC" can give for the rows ms
Ordered(ms) ==
    {q \in [1 .. Cardinality(ms) -> ms] :
        /\ \A i, j \in DOMAIN q : i # j => q[i] # q[j]
        /\ \A i, j \in DOMAIN q :
              i < j => SortKey(q[i].datetime) <= SortKey(q[j].datetime)}

\* twice "time_diff = (match_time - current_time).total_seconds() / 60" for
\* match m at time at
TimeDiff2(m, at) == 2 * m.datetime - at

\* mutant: the reminder is due at 4 minutes exactly
InWindow_Instant(m, at) == TimeDiff2(m, at) = 2 * WindowLow

\* "4 <= time_diff <= 6"
InWindow(m, at) ==
    2 * WindowLow <= TimeDiff2(m, at) /\ TimeDiff2(m, at) <= 2 * WindowHigh

\* "if 4 <= time_diff <= 6 and not match['reminder_sent']"
Selects(m, at) == InWindow(m, at) /\ ~m.reminder_sent

\* mutant: the flag is not written
MarkReminderSent_Skipped(ms, match_id) == ms

\* mutant: the UPDATE also moves the match by a minute
MarkReminderSent_Reschedules(ms, match_id) ==
    {IF m.id = match_id THEN [m EXCEPT !.reminder_sent = TRUE, !.datetime = @ + 1] ELSE m :
        m \in ms}

\* mutant: the flag is flipped
MarkReminderSent_Toggle(ms, match_id) ==
    {IF m.id = match_id THEN [m EXCEPT !.reminder_sent = ~@] ELSE m : m \in ms}

\* UPDATE matches SET reminder_sent = TRUE WHERE id = ?
MarkReminderSent(ms, match_id) ==
    {IF m.id = match_id THEN [m EXCEPT !.reminder_sent = TRUE] ELSE m : m \in ms}

\* the clock advances
tick ==
    /\ now < MaxNow
    /\ now' = now + 1
    /\ UNCHANGED <<store, seqvars, procvars, matchvars, scan, scan_log, views, sysvars>>

\* a pass starts: upcoming_matches = self.db.get_upcoming_matches();
\* current_time = datetime.now()
scan_begin ==
    /\ scan.pc = "idle"
    /\ Len(scan_log) < MaxScans
    /\ \E q \in Ordered(get_upcoming_matches(matches, None, now)) :
          scan' = [pc |-> "check", at |-> now, todo |-> q]
    /\ scan_log' = Append(scan_log, [at |-> now, selected |-> {}, delivered |-> {}])
    /\ UNCHANGED <<store, seqvars, procvars, matchvars, now, views, sysvars>>

\* the loop takes the next match of the list and tests it; the pass ends with
\* the list, and also when "datetime.strptime(match['datetime'], ...)" raises:
\* the ValueError leaves the loop for the "except Exception" of the task
scan_check ==
    /\ scan.pc = "check"
    /\ IF scan.todo = <<>> \/ ~Parses(Head(scan.todo).datetime)
       THEN /\ scan' = IdleScan
            /\ UNCHANGED scan_log
       ELSE IF Selects(Head(scan.todo), scan.at)
       THEN /\ scan' = [scan EXCEPT !.pc = "dispatch"]
            /\ scan_log' = [scan_log EXCEPT ![Len(scan_log)].selected =
                               @ \cup {Head(scan.todo).id}]
       ELSE /\ scan' = [scan EXCEPT !.todo = Tail(scan.todo)]
            /\ UNCHANGED scan_log
    /\ UNCHANGED <<store, seqvars, procvars, matchvars, now, views, sysvars>>

\* what send_match_reminder can meet: the embed is sent, get_guild returns
\* None, a role is not found, or a statement raises an Exception
DispatchOutcomes == {"sent", "no_guild", "no_roles", "error"}

\* mutant: send_match_reminder has no try/except of its own
send_match_reminder_Raises(outcome) == IF outcome = "error" THEN "raised" ELSE "returned"

\* send_match_reminder returns normally in each case, its body being inside
\* "try: ... except Exception"
send_match_reminder(outcome) == "returned"

\* "await self.send_match_reminder(match)" ends; an exception leaving it
\* would end the pass in the "except Exception" of the task
scan_dispatch ==
    /\ scan.pc = "dispatch"
    /\ \E outcome \in DispatchOutcomes :
          /\ scan' = IF send_match_reminder(outcome) = "returned"
                     THEN [scan EXCEPT !.pc = "mark"]
                     ELSE IdleScan
          /\ scan_log' = IF outcome = "sent"
                         THEN [scan_log EXCEPT ![Len(scan_log)].delivered =
                                  @ \cup {Head(scan.todo).id}]
                         ELSE scan_log
    /\ UNCHANGED <<store, seqvars, procvars, matchvars, now, views, sysvars>>

\* self.db.mark_reminder_sent(match['id'])
scan_mark ==
    /\ scan.pc = "mark"
    /\ matches' = MarkReminderSent(matches, Head(scan.todo).id)
    /\ scan' = [scan EXCEPT !.pc = "check", !.todo = Tail(scan.todo)]
    /\ UNCHANGED <<store, seqvars, procvars, match_seq, bot_settings, now, scan_log, views, sysvars>>

\* the event loop can run a handler
HandlerTurn == scan.pc \in {"idle", "dispatch"}

m_create_match(guild_id, datetime_str) == HandlerTurn /\ create_match(guild_id, datetime_str)

m_reset_all_data(guild_id) == HandlerTurn /\ reset_all_data(guild_id)

NextM ==
    \/ tick
    \/ scan_begin
    \/ scan_check
    \/ scan_dispatch
    \/ scan_mark
    \/ \E g \in Guilds, d \in MatchTimes \cup {Malformed(3)} : m_create_match(g, d)
    \/ \E g \in Guilds : m_reset_all_data(g)

SpecM == InitM /\ [][NextM]_vars

\* ---- the match_reminder task at its one-minute interval (SpecL) ---------------
\* "@tasks.loop(minutes=1)": the first pass starts within the first minute, each
\* later pass one minute after the pass before it, and a pass is over before
\* the next is due.  scan_log keeps the latest pass only.

\* the clock advances by half a minute, unless a pass is due first
l_tick ==
    /\ now < 2 * LastMinute
    /\ IF scan_log = <<>>
       THEN now < 1
       ELSE \/ now + 1 < scan_log[1].at + 2
            \/ now + 1 = scan_log[1].at + 2 /\ scan.pc = "idle"
    /\ now' = now + 1
    /\ UNCHANGED <<store, seqvars, procvars, matchvars, scan, scan_log, views, sysvars>>

\* the pass that is due starts
l_scan_begin ==
    /\ scan.pc = "idle"
    /\ scan_log # <<>> => now = scan_log[1].at + 2
    /\ \E q \in Ordered(get_upcoming_matches(matches, None, now)) :
          scan' = [pc |-> "check", at |-> now, todo |-> q]
    /\ scan_log' = <<[at |-> now, selected |-> {}, delivered |-> {}]>>
    /\ UNCHANGED <<store, seqvars, procvars, matchvars, now, views, sysvars>>

NextL ==
    \/ l_tick
    \/ l_scan_begin
    \/ scan_check
    \/ scan_dispatch
    \/ scan_mark
    \/ \E g \in Guilds, d \in MatchTimes : m_create_match(g, d)
    \/ \E g \in Guilds : m_reset_all_data(g)

\* the task and the event loop run on: the clock advances, a due pass starts
\* and a running pass takes its next step
SpecL ==
    /\ InitM
    /\ [][NextL]_vars
    /\ WF_vars(l_tick)
    /\ WF_vars(l_scan_begin)
    /\ WF_vars(scan_check)
    /\ WF_vars(scan_dispatch)
    /\ WF_vars(scan_mark)

\* ---- the match_reminder task over a stored matches table (SpecD) ------------
\* The table is the one the database file holds when the task starts; its rows
\* were stored by Database.create_match, which keeps datetime_str as given.

\* the datetime strings of the stored rows
StoredTimes == {Malformed(3), 5, 6}

\* two stored rows of community 1
StoredTables ==
    {{[id |-> i, guild_id |-> 1, datetime |-> d[i], reminder_sent |-> f[i]] : i \in {1, 2}} :
        d \in [{1, 2} -> StoredTimes], f \in [{1, 2} -> BOOLEAN]}

InitD ==
    /\ clubs = {}
    /\ players = {}
    /\ transfers = <<>>
    /\ club_seq = 0
    /\ player_seq = 0
    /\ matches \in StoredTables
    /\ match_seq = 2
    /\ bot_settings = {}
    /\ InitScan
    /\ InitCallers
    /\ InitViews
    /\ InitSys

NextD ==
    \/ tick
    \/ scan_begin
    \/ scan_check
    \/ scan_dispatch
    \/ scan_mark

SpecD == InitD /\ [][NextD]_vars

\* ---- the reset_data command and its confirmation dialogue (SpecV) ------------
\* Each reset_data command sends its own message with its own ConfirmView.  A
\* button can be pressed while the message shows the view: until a handler
\* replaces the message by one without a view ("view=None") or the view times
\* out.  In Spec, SpecI and SpecM, reset_all_data stands for a whole dialogue
\* that its command's user confirmed.

\* mutant: every member may use the buttons
SameUser_Any(presser, commander) == TRUE

\* "if button_interaction.user != interaction.user: ...; return" does not return
SameUser(presser, commander) == presser = commander

\* the reset_data command of user in community guild_id: the message with the
\* two buttons is sent
reset_data(d, user, guild_id) ==
    /\ views[d].state = "none"
    /\ \A e \in Dialogs : e < d => views[e].state # "none"
    /\ views' = [views EXCEPT ![d] = [state |-> "shown", user |-> user,
                                      guild_id |-> guild_id, by |-> 0]]
    /\ last' = Call("reset_data", TRUE)
    /\ UNCHANGED <<store, calls, procvars, matchvars, scanvars, sysvars>>

\* ConfirmView.confirm_reset: CONFIRM RESET of dialogue d is pressed by presser
confirm_reset(d, presser) ==
    /\ views[d].state = "shown"
    /\ IF SameUser(presser, views[d].user)
       THEN LET r == reset_all_data_result(views[d].guild_id)
            IN  /\ transfers' = r.transfers
                /\ matches' = r.matches
                /\ players' = r.players
                /\ clubs' = r.clubs
                /\ bot_settings' = r.bot_settings
                /\ views' = [views EXCEPT ![d].state = "confirmed", ![d].by = presser]
                /\ last' = Call("reset_all_data", TRUE)
       ELSE /\ views' = [views EXCEPT ![d].by = presser]
            /\ last' = Call("confirm_reset", FALSE)
            /\ UNCHANGED <<transfers, matches, players, clubs, bot_settings>>
    /\ UNCHANGED <<club_seq, player_seq, match_seq, calls, procvars, scanvars, sysvars>>

\* ConfirmView.cancel_reset: Cancel of dialogue d is pressed by presser
cancel_reset(d, presser) ==
    /\ views[d].state = "shown"
    /\ IF SameUser(presser, views[d].user)
       THEN /\ views' = [views EXCEPT ![d].state = "cancelled", ![d].by = presser]
            /\ last' = Call("cancel_reset", TRUE)
       ELSE /\ views' = [views EXCEPT ![d].by = presser]
            /\ last' = Call("cancel_reset", FALSE)
    /\ UNCHANGED <<store, calls, procvars, matchvars, scanvars, sysvars>>

\* "super().__init__(timeout=30)": the view stops listening
view_timeout(d) ==
    /\ views[d].state = "shown"
    /\ views' = [views EXCEPT ![d].state = "expired"]
    /\ UNCHANGED <<store, seqvars, procvars, matchvars, scanvars, sysvars>>

NextV ==
    \/ \E d \in Dialogs, u \in Users, g \in Guilds : reset_data(d, u, g)
    \/ \E d \in Dialogs, u \in Users : confirm_reset(d, u)
    \/ \E d \in Dialogs, u \in Users : cancel_reset(d, u)
    \/ \E d \in Dialogs : view_timeout(d)

SpecV == Init /\ [][NextV]_vars

\* ---- the start-up of the process (SpecB) ---------------------------------------
\* main.py is executed by "python main.py" (mode "direct", __name__ is
\* "__main__") or imported by a WSGI server (mode "wsgi"), with or without
\* DISCORD_TOKEN in the environment.

\* mutant: init_database logs the error and returns
init_database_Swallows(ok) == "ready"

\* Database.__init__ calls init_database, which logs and re-raises what
\* sqlite3.connect or a CREATE TABLE raised
init_database(ok) == IF ok THEN "ready" ELSE "raise"

b_exec(mode, token) ==
    /\ boot.pc = "off"
    /\ boot' = [boot EXCEPT !.mode = mode, !.token = token, !.pc = "import_bot"]
    /\ UNCHANGED <<store, seqvars, procvars, matchvars, scanvars, views, limiter>>

\* "from bot import start_bot" runs bot.py, whose "bot = FootballBot()" runs
\* "self.db = Database()"; an exception ends the execution of main.py
b_import_bot ==
    /\ boot.pc = "import_bot"
    /\ \E ok \in BOOLEAN :
          boot' = IF init_database(ok) = "raise"
                  THEN [boot EXCEPT !.pc = "failed", !.db_failed = TRUE]
                  ELSE [boot EXCEPT !.pc = "create_app", !.dbs = @ + 1,
                                    !.db_failed = @ \/ ~ok]
    /\ UNCHANGED <<store, seqvars, procvars, matchvars, scanvars, views, limiter>>

\* "app = create_app()" runs "db = Database()" of web_server.py
b_create_app ==
    /\ boot.pc = "create_app"
    /\ \E ok \in BOOLEAN :
          boot' = IF init_database(ok) = "raise"
                  THEN [boot EXCEPT !.pc = "failed", !.db_failed = TRUE]
                  ELSE [boot EXCEPT !.pc = "module", !.dbs = @ + 1,
                                    !.db_failed = @ \/ ~ok]
    /\ UNCHANGED <<store, seqvars, procvars, matchvars, scanvars, views, limiter>>

\* "if os.getenv('DISCORD_TOKEN'):" starts bot_thread, which runs
\* asyncio.run(start_bot()), and keep_alive_thread
b_module ==
    /\ boot.pc = "module"
    /\ boot' = [boot EXCEPT
                   !.pc = IF boot.mode = "direct" THEN "main" ELSE "served",
                   !.start_bot["bot_thread"] = IF boot.token THEN "start" ELSE @,
                   !.keep_alive = IF boot.token THEN @ + 1 ELSE @]
    /\ UNCHANGED <<store, seqvars, procvars, matchvars, scanvars, views, limiter>>

\* "asyncio.run(main())": the web thread, a keep_alive thread and
\* "await start_bot()", which returns at once without a token
b_main ==
    /\ boot.pc = "main"
    /\ boot' = [boot EXCEPT
                   !.pc = "served",
                   !.keep_alive = @ + 1,
                   !.start_bot["main"] = IF boot.token THEN "start" ELSE "end"]
    /\ UNCHANGED <<store, seqvars, procvars, matchvars, scanvars, views, limiter>>

\* "await bot.start(token)" in thread t; login calls setup_hook
b_bot_start(t) ==
    /\ boot.start_bot[t] = "start"
    /\ boot' = [boot EXCEPT !.start_bot[t] = "hook"]
    /\ UNCHANGED <<store, seqvars, procvars, matchvars, scanvars, views, limiter>>

\* setup_hook: "if not self.match_reminder.is_running():"
b_setup_check(t) ==
    /\ boot.start_bot[t] = "hook"
    /\ boot' = [boot EXCEPT
                   !.start_bot[t] = IF boot.match_reminder > 0 THEN "run" ELSE "launch"]
    /\ UNCHANGED <<store, seqvars, procvars, matchvars, scanvars, views, limiter>>

\* setup_hook: "self.match_reminder.start()", after the test found no task
b_setup_launch(t) ==
    /\ boot.start_bot[t] = "launch"
    /\ boot' = [boot EXCEPT !.start_bot[t] = "run", !.match_reminder = @ + 1]
    /\ UNCHANGED <<store, seqvars, procvars, matchvars, scanvars, views, limiter>>

\* bot.start raises discord.LoginFailure or an HTTPException other than 429:
\* start_bot logs it and returns
b_bot_gives_up(t) ==
    /\ boot.start_bot[t] \in {"hook", "run"}
    /\ boot' = [boot EXCEPT !.start_bot[t] = "end"]
    /\ UNCHANGED <<store, seqvars, procvars, matchvars, scanvars, views, limiter>>

\* bot.start raises a 429 or another Exception: start_bot sleeps
b_bot_fails(t) ==
    /\ boot.start_bot[t] \in {"hook", "run"}
    /\ boot.retries < MaxRetries
    /\ boot' = [boot EXCEPT !.start_bot[t] = "sleep", !.retries = @ + 1]
    /\ UNCHANGED <<store, seqvars, procvars, matchvars, scanvars, views, limiter>>

\* after the sleep: "await start_bot()"
b_retry(t) ==
    /\ boot.start_bot[t] = "sleep"
    /\ boot' = [boot EXCEPT !.start_bot[t] = "start"]
    /\ UNCHANGED <<store, seqvars, procvars, matchvars, scanvars, views, limiter>>

\* the calls of bot.start that have not returned
RunningBots == {t \in Threads : boot.start_bot[t] \in {"hook", "launch", "run"}}

\* a connected bot dispatches the commands of its guilds
Connected == \E t \in Threads : boot.start_bot[t] = "run"

b_create_match(guild_id, datetime_str) ==
    Connected /\ HandlerTurn /\ create_match(guild_id, datetime_str)

\* a started match_reminder task runs its passes
b_scan_begin == boot.match_reminder > 0 /\ scan_begin

NextB ==
    \/ \E mode \in {"direct", "wsgi"}, token \in BOOLEAN : b_exec(mode, token)
    \/ b_import_bot
    \/ b_create_app
    \/ b_module
    \/ b_main
    \/ \E t \in Threads : b_bot_start(t)
    \/ \E t \in Threads : b_setup_check(t)
    \/ \E t \in Threads : b_setup_launch(t)
    \/ \E t \in Threads : b_bot_gives_up(t)
    \/ \E t \in Threads : b_bot_fails(t)
    \/ \E t \in Threads : b_retry(t)
    \/ \E d \in {5} : b_create_match(1, d)
    \/ b_scan_begin
    \/ scan_check
    \/ scan_dispatch
    \/ scan_mark

SpecB == InitM /\ [][NextB]_vars

\* ---- rate_limit_handler and the handlers that await it (SpecR) ----------------
\* Every command handler begins with "await bot.rate_limit_handler()".  The
\* handlers are coroutines of one event loop: the statements between two
\* awaits run without interruption, and "await asyncio.sleep(...)" lets the
\* other handlers run.  Time is counted in half seconds.

\* time.time(); the process runs longer than rate_limit_delay after the epoch,
\* the 0 of "self.last_request_time = 0"
time_time == now + rate_limit_delay

\* a handler enters rate_limit_handler: it goes to sleep for what is missing
\* of the delay, or it writes last_request_time and leaves
r_enter(h) ==
    LET current_time == time_time
        elapsed == current_time - limiter.last_request_time
    IN  /\ limiter.req[h].pc = "out"
        /\ limiter' =
              IF elapsed < rate_limit_delay
              THEN [limiter EXCEPT
                      !.req[h] = [pc |-> "sleep",
                                  wake |-> current_time + (rate_limit_delay - elapsed),
                                  left_at |-> 0]]
              ELSE [limiter EXCEPT
                      !.last_request_time = time_time,
                      !.req[h] = [pc |-> "left", wake |-> 0, left_at |-> time_time]]
        /\ UNCHANGED <<store, seqvars, procvars, matchvars, scanvars, views, boot>>

\* asyncio.sleep returns, at its time or later; "self.last_request_time =
\* time.time()" and the handler leaves
r_wake(h) ==
    /\ limiter.req[h].pc = "sleep"
    /\ time_time >= limiter.req[h].wake
    /\ limiter' = [limiter EXCEPT
                      !.last_request_time = time_time,
                      !.req[h] = [pc |-> "left", wake |-> 0, left_at |-> time_time]]
    /\ UNCHANGED <<store, seqvars, procvars, matchvars, scanvars, views, boot>>

NextR ==
    \/ tick
    \/ \E h \in Requests : r_enter(h)
    \/ \E h \in Requests : r_wake(h)

SpecR == InitM /\ [][NextR]_vars

\* ---- the claims about calls that run one at a time (Spec) --------------------

\* the arguments of the transfer_player command
TransferArgs ==
    [guild_id : Guilds, player : PlayerNames, from_club : ClubNames,
     to_club : ClubNames, fee : Fees, admin_id : Admins, log_fails : BOOLEAN]

\* the arguments of Database.transfer_player
DbTransferArgs ==
    [guild_id : Guilds, player : PlayerNames, from_club : ClubNames,
     to_club : ClubNames, fee : Fees]

\* what Database.transfer_player does when called with a in the current state
DbTransferResult(a) ==
    db_transfer_player([clubs |-> clubs, players |-> players], a.guild_id, a.player,
                       a.from_club, a.to_club, a.fee)

\* what the command does when called with a in the current state
TransferResult(a) ==
    transfer_player_result(a.guild_id, a.player, a.from_club, a.to_club, a.fee,
                           a.admin_id, a.log_fails)

\* the rows a claim speaks of, read off tables cl and pl
ClubsNamed(cl, guild_id, name) == {c \in cl : c.guild_id = guild_id /\ c.name = name}
PlayersNamed(pl, guild_id, name) == {p \in pl : p.guild_id = guild_id /\ p.name = name}

RECURSIVE SumBudgets(_)
SumBudgets(cl) ==
    IF cl = {} THEN 0
    ELSE LET c == CHOOSE x \in cl : TRUE IN c.budget + SumBudgets(cl \ {c})

\* both clubs exist in the community, the player exists there and is assigned
\* to fromClub, and toClub's budget is >= fee
TransferPre(a) ==
    /\ \E f \in ClubsNamed(clubs, a.guild_id, a.from_club) :
          \E p \in PlayersNamed(players, a.guild_id, a.player) : p.club_id = f.id
    /\ \E t \in ClubsNamed(clubs, a.guild_id, a.to_club) : t.budget >= a.fee

\* the last row of the transfer log
LastLogged == transfers[Len(transfers)]

\* C2: a transfer with fee >= 0, run without interleaving, succeeds if and only
\* if both clubs exist in the community, the player exists there and is
\* assigned to fromClub, and toClub's budget is >= fee
C2_SucceedsIffPre ==
    \A a \in DbTransferArgs : a.fee >= 0 => (DbTransferResult(a).ret <=> TransferPre(a))

\* a transfer with fee 1 has succeeded and left its destination a budget of 0,
\* and the same transfer into that club would now be rejected
C2_Witness ==
    /\ last = Call("transfer_player", TRUE)
    /\ transfers # <<>>
    /\ LastLogged.fee = 1
    /\ \E t \in ClubsNamed(clubs, LastLogged.guild_id, LastLogged.to_club) : t.budget = 0

\* the effect of a successful transfer as the claim states it, for result r of
\* a call with a: every club named fromClub has its budget + fee, every club
\* named toClub its budget - fee, the player is in toClub
StatedEffect(a, r) ==
    /\ \A f \in ClubsNamed(clubs, a.guild_id, a.from_club) :
          \E f2 \in r.clubs : f2.id = f.id /\ f2.budget = f.budget + a.fee
    /\ \A t \in ClubsNamed(clubs, a.guild_id, a.to_club) :
          /\ \E t2 \in r.clubs : t2.id = t.id /\ t2.budget = t.budget - a.fee
          /\ \A p \in PlayersNamed(r.players, a.guild_id, a.player) : p.club_id = t.id

SumKept(a, r) ==
    SumBudgets(ClubsNamed(r.clubs, a.guild_id, a.from_club)
               \cup ClubsNamed(r.clubs, a.guild_id, a.to_club))
      = SumBudgets(ClubsNamed(clubs, a.guild_id, a.from_club)
                   \cup ClubsNamed(clubs, a.guild_id, a.to_club))
    /\ SumBudgets(get_clubs(r.clubs, a.guild_id)) = SumBudgets(get_clubs(clubs, a.guild_id))

\* this step is the transfer_player command called with a
IsTransfer(a) ==
    transfer_player(a.guild_id, a.player, a.from_club, a.to_club, a.fee,
                    a.admin_id, a.log_fails)

C4_RejectedChangesNothing ==
    \A a \in TransferArgs :
        LET r == TransferResult(a)
        IN  ~r.ret => (r.clubs = clubs /\ r.players = players /\ r.transfers = transfers)

\* a transfer has been rejected in a store that holds clubs, players with a
\* club and a logged transfer
C4_Witness ==
    /\ last = Call("transfer_player", FALSE)
    /\ transfers # <<>>
    /\ \E p \in players : p.club_id # NULL

\* C23: for every call of the transfer command on the current store: a transfer
\* that succeeded appends exactly one record with the player, the two clubs,
\* the fee and the acting admin; a rejected one appends none; when the append
\* fails the log is unchanged, the transfer stays as Database.transfer_player
\* committed it and the command reports success
C23_LogAfterSuccess ==
    \A a \in TransferArgs :
        LET r == TransferResult(a)
            d == DbTransferResult([guild_id |-> a.guild_id, player |-> a.player,
                                   from_club |-> a.from_club, to_club |-> a.to_club,
                                   fee |-> a.fee])
        IN  /\ r.ret = d.ret /\ r.clubs = d.clubs /\ r.players = d.players
            /\ (r.ret /\ ~a.log_fails) =>
                  r.transfers = Append(transfers,
                                       [guild_id |-> a.guild_id, player_name |-> a.player,
                                        from_club |-> a.from_club, to_club |-> a.to_club,
                                        fee |-> a.fee, admin_id |-> a.admin_id])
            /\ (~r.ret \/ a.log_fails) => r.transfers = transfers

\* a transfer has succeeded and moved the player while its append failed: the
\* log is still empty
C23_Witness ==
    /\ last = Call("transfer_player", TRUE)
    /\ transfers = <<>>
    /\ \E p \in players : p.club_id # NULL

\* sequence a is the beginning of sequence b
IsPrefix(a, b) == Len(a) <= Len(b) /\ SubSeq(b, 1, Len(a)) = a

\* the step keeps every transfer record of community g, unchanged and in its
\* place, and at most appends to them
KeepsLog(g) ==
    IsPrefix(get_transfer_history(transfers, g), get_transfer_history(transfers', g))

\* C24: every step keeps the transfer records of every community, except a
\* reset_all_data, which removes the records of one community and keeps those
\* of the others
C24_AppendOnly ==
    [][/\ last'.op # "reset_all_data" => \A g \in Guilds : KeepsLog(g)
       /\ \A g1, g2 \in Guilds : g1 # g2 => (KeepsLog(g1) \/ KeepsLog(g2))]_vars

\* a transfer was logged and then the club it came from was deleted: the
\* record still names the club
C24_Witness ==
    /\ last = Call("delete_club", TRUE)
    /\ transfers # <<>>
    /\ \A c \in clubs : ~(c.guild_id = transfers[1].guild_id /\ c.name = transfers[1].from_club)

\* the preconditions of the transfer that arguments a fail in the current store
FailedPre(a) ==
    LET from_set == ClubsNamed(clubs, a.guild_id, a.from_club)
        to_set == ClubsNamed(clubs, a.guild_id, a.to_club)
    IN  (IF from_set = {} \/ to_set = {} THEN {"club missing"} ELSE {})
        \cup (IF /\ from_set # {}
                 /\ ~\E f \in from_set, p \in PlayersNamed(players, a.guild_id, a.player) :
                        p.club_id = f.id
              THEN {"player not found under source club"} ELSE {})
        \cup (IF \E t \in to_set : t.budget < a.fee
              THEN {"insufficient budget"} ELSE {})

\* C26: two transfers that are rejected for different single reasons return
\* different values
C26_ReasonReported ==
    \A a, b \in DbTransferArgs :
        (Cardinality(FailedPre(a)) = 1 /\ Cardinality(FailedPre(b)) = 1
         /\ FailedPre(a) # FailedPre(b))
           => DbTransferResult(a).ret # DbTransferResult(b).ret

\* C7: every club's budget is non-negative
C7_BudgetsNonNegative == \A c \in clubs : c.budget >= 0

\* C8: a transfer with a negative fee is rejected and changes nothing
C8_NegativeFeeRejected ==
    [][\A a \in TransferArgs :
         (a.fee < 0 /\ IsTransfer(a)) =>
            (~last'.ret /\ UNCHANGED <<clubs, players, transfers>>)]_vars

\* C9: each player's club reference is null or the id of an existing club of
\* the player's own community
C9_ReferentialIntegrity ==
    \A p \in players :
        p.club_id = NULL \/ \E c \in clubs : c.id = p.club_id /\ c.guild_id = p.guild_id

\* a club has been deleted: one of its players is a free agent, another player
\* still has a club, and a club of the other community is left
C9_Witness ==
    /\ last = Call("delete_club", TRUE)
    /\ \E p \in players : p.club_id = NULL
    /\ \E p \in players : p.club_id # NULL
    /\ \E c \in clubs : c.guild_id = 2

\* the arguments of delete_club
DeleteArgs == [guild_id : Guilds, name : ClubNames]

\* C10: deleteClub on an existing club removes that club and only it, keeps
\* every player and changes only the club reference of that club's players,
\* to null; listPlayers then shows them without a club and listClubs does not
\* show the club.  deleteClub on an absent club fails and changes nothing
C10_DeleteClub ==
    \A a \in DeleteArgs :
        LET r == delete_club_result(a.guild_id, a.name)
            found == ClubsNamed(clubs, a.guild_id, a.name)
        IN  IF found = {}
            THEN ~r.ret /\ r.clubs = clubs /\ r.players = players
            ELSE /\ r.ret
                 /\ r.clubs = clubs \ found
                 /\ Cardinality(r.players) = Cardinality(players)
                 /\ \A p \in players :
                       \E q \in r.players :
                          /\ q.id = p.id /\ q.guild_id = p.guild_id /\ q.name = p.name
                          /\ q.value = p.value
                          /\ q.club_id = IF \E c \in found : c.id = p.club_id
                                         THEN NULL ELSE p.club_id
                          /\ (\E c \in found : c.id = p.club_id) =>
                                [name |-> p.name, value |-> p.value, club_name |-> "NULL"]
                                    \in get_all_players(r.players, r.clubs, p.guild_id)
                 /\ \A c \in get_clubs(r.clubs, a.guild_id) : c.name # a.name

\* a club with two players has been deleted: both are still listed, without a
\* club, and the club is gone
C10_Witness ==
    /\ last = Call("delete_club", TRUE)
    /\ Cardinality({p \in get_all_players(players, clubs, 1) : p.club_name = "NULL"}) = 2
    /\ Cardinality(get_clubs(clubs, 1)) = 1

\* the arguments of create_club and update_club_budget
ClubArgs == [guild_id : Guilds, name : ClubNames, budget : Budgets]

\* C11: after a successful createClub(g, name, budget) listClubs(g) has exactly
\* one entry with that name, and it has that budget; createClub of a (g, name)
\* that exists, with any budget, fails and leaves the store unchanged
C11_CreateClub ==
    \A a \in ClubArgs :
        LET r == create_club_result(a.guild_id, a.name, a.budget)
            listed == {c \in get_clubs(r.clubs, a.guild_id) : c.name = a.name}
        IN  /\ r.ret => (Cardinality(listed) = 1 /\ \A c \in listed : c.budget = a.budget)
            /\ ClubsNamed(clubs, a.guild_id, a.name) # {} =>
                  (~r.ret /\ r.clubs = clubs /\ r.club_seq = club_seq)

\* a club was created on the empty store and a second createClub was rejected:
\* the club is the only one
C11_Witness ==
    /\ last = Call("create_club", FALSE)
    /\ calls = 2
    /\ club_seq = 1
    /\ Cardinality(clubs) = 1

\* C12: no two clubs of a community have the same name, no two players of a
\* community have the same name
C12_UniqueNames ==
    /\ \A c \in clubs, d \in clubs : (c.guild_id = d.guild_id /\ c.name = d.name) => c = d
    /\ \A p \in players, q \in players : (p.guild_id = q.guild_id /\ p.name = q.name) => p = q

\* the same club name and the same player name exist in two communities, after
\* a player was added
C12_Witness ==
    /\ last = Call("add_player", TRUE)
    /\ \E c \in clubs, d \in clubs : c.name = d.name /\ c.guild_id # d.guild_id
    /\ \E p \in players, q \in players :
          p.name = q.name /\ p.guild_id # q.guild_id /\ q.id = player_seq

\* the arguments of add_player
PlayerArgs == [guild_id : Guilds, name : PlayerNames, club_name : ClubNames, value : Values]

\* C13: addPlayer fails and leaves the store unchanged when clubName is not a
\* club of g or a player of that name exists in g, with or without a club;
\* otherwise it adds exactly one player, assigned to that club
C13_AddPlayer ==
    \A a \in PlayerArgs :
        LET r == add_player_result(a.guild_id, a.name, a.club_name, a.value)
            club == ClubsNamed(clubs, a.guild_id, a.club_name)
        IN  IF club = {} \/ PlayersNamed(players, a.guild_id, a.name) # {}
            THEN ~r.ret /\ r.players = players /\ r.player_seq = player_seq
            ELSE /\ r.ret
                 /\ players \subseteq r.players
                 /\ Cardinality(r.players \ players) = 1
                 /\ \A p \in r.players \ players :
                       /\ p.guild_id = a.guild_id /\ p.name = a.name /\ p.value = a.value
                       /\ \E c \in club : p.club_id = c.id

\* a club was deleted, and adding a player under the name of one of its
\* players, now a free agent, to a club that exists was rejected
C13_Witness ==
    /\ last = Call("add_player", FALSE)
    /\ Cardinality(players) = 3
    /\ \A p \in players : p.guild_id = 1 => p.club_id = NULL
    /\ Cardinality(get_clubs(clubs, 1)) = 1
    /\ Cardinality(PlayersNamed(players, 1, "Alice")) = 1
    /\ Cardinality(PlayersNamed(players, 1, "Bob")) = 1

\* the arguments of update_player_value and remove_player
ValueArgs == [guild_id : Guilds, name : PlayerNames, value : Values]

\* C14: updateClubBudget, updatePlayerValue and removePlayer fail and change
\* nothing when no row of the community has the name; otherwise they succeed
\* and change only that row: its budget, its value, or its removal
C14_NotFound ==
    /\ \A a \in ClubArgs :
          LET r == update_club_budget_result(a.guild_id, a.name, a.budget)
              rows == ClubsNamed(clubs, a.guild_id, a.name)
          IN  IF rows = {} THEN ~r.ret /\ r.clubs = clubs
              ELSE r.ret /\ r.clubs = (clubs \ rows)
                                        \cup {[c EXCEPT !.budget = a.budget] : c \in rows}
    /\ \A a \in ValueArgs :
          LET r == update_player_value_result(a.guild_id, a.name, a.value)
              d == remove_player_result(a.guild_id, a.name)
              rows == PlayersNamed(players, a.guild_id, a.name)
          IN  IF rows = {}
              THEN ~r.ret /\ r.players = players /\ ~d.ret /\ d.players = players
              ELSE /\ Cardinality(rows) = 1
                   /\ r.ret /\ r.players = (players \ rows)
                                             \cup {[p EXCEPT !.value = a.value] : p \in rows}
                   /\ d.ret /\ d.players = players \ rows

\* a player's value was updated while a player of the same name exists in the
\* other community with another value
C14_Witness ==
    /\ last = Call("update_player_value", TRUE)
    /\ \E p \in players, q \in players :
          p.name = q.name /\ p.guild_id # q.guild_id /\ p.value # q.value /\ p.value = 1
          /\ p.guild_id = 1

\* the rows of table t (a set) that are not of community g
Others(t, g) == {r \in t : r.guild_id # g}

\* C15: after resetAll(g) every read for g (listClubs, listPlayers, topPlayers,
\* richestClubs, transferHistory, upcoming matches, serverStats) is empty or
\* zero, and every club, player, match, transfer and setting of any other
\* community is unchanged
C15_ResetAll ==
    \A g \in Guilds :
        LET r == reset_all_data_result(g)
        IN  /\ get_clubs(r.clubs, g) = {}
            /\ get_all_players(r.players, r.clubs, g) = {}
            /\ get_top_players(r.players, r.clubs, g) = {}
            /\ get_richest_clubs(r.clubs, r.players, g) = {}
            /\ get_transfer_history(r.transfers, g) = <<>>
            /\ \A t \in Times :
                  /\ get_upcoming_matches(r.matches, g, t) = {}
                  /\ get_server_stats(r, g, t) =
                        [total_clubs |-> 0, total_players |-> 0, upcoming_matches |-> 0,
                         total_transfers |-> 0, total_value |-> 0]
            /\ Others(r.clubs, g) = Others(clubs, g)
            /\ Others(r.players, g) = Others(players, g)
            /\ Others(r.matches, g) = Others(matches, g)
            /\ Others(r.bot_settings, g) = Others(bot_settings, g)
            /\ SelectSeq(r.transfers, LAMBDA x : x.guild_id # g)
                  = SelectSeq(transfers, LAMBDA x : x.guild_id # g)

\* a match was created in community 1 and community 1 was reset: its match,
\* clubs and players are gone, those of community 2 are there
C15_Witness ==
    /\ last = Call("reset_all_data", TRUE)
    /\ match_seq = 1 /\ matches = {}
    /\ get_clubs(clubs, 1) = {} /\ get_all_players(players, clubs, 1) = {}
    /\ Cardinality(get_clubs(clubs, 2)) = 1
    /\ Cardinality(get_all_players(players, clubs, 2)) = 1

\* the rows of a transfer log that are not of community g
OtherLog(tr, g) == SelectSeq(tr, LAMBDA x : x.guild_id # g)

\* result r of an operation invoked with g leaves the rows of every other
\* community as they are; r holds the tables the operation writes
KeepsOthers(r, g) ==
    /\ "clubs" \in DOMAIN r => Others(r.clubs, g) = Others(clubs, g)
    /\ "players" \in DOMAIN r => Others(r.players, g) = Others(players, g)
    /\ "matches" \in DOMAIN r => Others(r.matches, g) = Others(matches, g)
    /\ "transfers" \in DOMAIN r => OtherLog(r.transfers, g) = OtherLog(transfers, g)

\* every read invoked with g returns rows of g only: the listed clubs, matches
\* and transfers are of g, a listed player is a player of g and the club shown
\* for it is a club of g, a counted player is a player of g, the statistics
\* are those of the rows of g alone
ReadsOnly(g) ==
    /\ \A c \in get_clubs(clubs, g) : c.guild_id = g
    /\ \A row \in get_all_players(players, clubs, g) \cup get_top_players(players, clubs, g) :
          \E p \in players :
             /\ p.guild_id = g /\ p.name = row.name /\ p.value = row.value
             /\ \/ row.club_name = "NULL" /\ p.club_id = NULL
                \/ \E c \in clubs : c.guild_id = g /\ c.id = p.club_id /\ c.name = row.club_name
    /\ \A row \in get_richest_clubs(clubs, players, g) :
          \E c \in clubs :
             /\ c.guild_id = g /\ c.name = row.name /\ c.budget = row.budget
             /\ row.player_count
                  = Cardinality({p \in players : p.guild_id = g /\ p.club_id = c.id})
    /\ \A i \in DOMAIN get_transfer_history(transfers, g) :
          get_transfer_history(transfers, g)[i].guild_id = g
    /\ \A t \in Times :
          /\ \A m \in get_upcoming_matches(matches, g, t) : m.guild_id = g
          /\ get_server_stats([clubs |-> clubs, players |-> players, matches |-> matches,
                               transfers |-> transfers], g, t)
               = get_server_stats([clubs |-> clubs \ Others(clubs, g),
                                   players |-> players \ Others(players, g),
                                   matches |-> matches \ Others(matches, g),
                                   transfers |-> get_transfer_history(transfers, g)], g, t)

\* C17: community isolation: every operation invoked with g leaves the rows of
\* every other community unchanged, and every read invoked with g returns only
\* rows of g
C17_Isolation ==
    /\ \A a \in ClubArgs :
          /\ KeepsOthers(create_club_result(a.guild_id, a.name, a.budget), a.guild_id)
          /\ KeepsOthers(update_club_budget_result(a.guild_id, a.name, a.budget), a.guild_id)
          /\ KeepsOthers(delete_club_result(a.guild_id, a.name), a.guild_id)
    /\ \A a \in PlayerArgs :
          /\ KeepsOthers(add_player_result(a.guild_id, a.name, a.club_name, a.value),
                         a.guild_id)
          /\ KeepsOthers(update_player_value_result(a.guild_id, a.name, a.value), a.guild_id)
          /\ KeepsOthers(remove_player_result(a.guild_id, a.name), a.guild_id)
    /\ \A a \in TransferArgs : KeepsOthers(TransferResult(a), a.guild_id)
    /\ \A g \in Guilds :
          /\ KeepsOthers(reset_all_data_result(g), g)
          /\ \A d \in MatchTimes : KeepsOthers(create_match_result(g, d), g)
          /\ ReadsOnly(g)

\* a player was transferred in community 1 while community 2 has a club and a
\* player of the same names: in 1 the player has moved and the fee was paid,
\* in 2 the player and the budget are as they were
C17_Witness ==
    /\ last = Call("transfer_player", TRUE)
    /\ \E p \in PlayersNamed(players, 1, "Alice") : p.club_id = 2
    /\ \E p \in PlayersNamed(players, 2, "Alice") : p.club_id = 3
    /\ \E c \in ClubsNamed(clubs, 1, "Red") : c.budget = 2
    /\ \E c \in ClubsNamed(clubs, 2, "Red") : c.budget = 1


\* what Database.create_club returns; storage_fails: a statement raises another
\* exception than IntegrityError ("except Exception as e: ...; return False")
create_club_return(guild_id, name, budget, storage_fails) ==
    IF storage_fails THEN FALSE ELSE create_club_result(guild_id, name, budget).ret

\* what Database.add_player returns
add_player_return(guild_id, name, club_name, value, storage_fails) ==
    IF storage_fails THEN FALSE ELSE add_player_result(guild_id, name, club_name, value).ret

\* what Database.get_clubs returns, as a set ("except Exception as e: ...;
\* return []")
get_clubs_return(guild_id, storage_fails) ==
    IF storage_fails THEN {} ELSE get_clubs(clubs, guild_id)

\* C27: what an operation returns when the storage fails differs from what it
\* returns for AlreadyExists (create_club, add_player), for NotFound
\* (add_player with an unknown club) and for a query that matched nothing
\* (get_clubs)
C27_ExplicitFailures ==
    /\ \A a \in ClubArgs :
          ClubExists(clubs, a.guild_id, a.name) =>
             create_club_return(a.guild_id, a.name, a.budget, TRUE)
                # create_club_return(a.guild_id, a.name, a.budget, FALSE)
    /\ \A a \in PlayerArgs :
          (PlayerExists(players, a.guild_id, a.name)
           \/ get_club_by_name(clubs, a.guild_id, a.club_name) = NoRow) =>
             add_player_return(a.guild_id, a.name, a.club_name, a.value, TRUE)
                # add_player_return(a.guild_id, a.name, a.club_name, a.value, FALSE)
    /\ \A g \in Guilds :
          get_clubs(clubs, g) = {} => get_clubs_return(g, TRUE) # get_clubs_return(g, FALSE)


\* SQL leaves the order of rows with equal ORDER BY keys open, and SQLite
\* returns them in the order of its scan (for clubs and players the index of
\* UNIQUE(guild_id, name)): a query is modelled by the lists it can return.

\* SELECT * FROM clubs WHERE guild_id = ? ORDER BY budget DESC, also the order
\* of get_richest_clubs
get_clubs_ordered(guild_id) ==
    LET rows == get_clubs(clubs, guild_id)
    IN  {q \in [1 .. Cardinality(rows) -> rows] :
            /\ \A i, j \in DOMAIN q : i # j => q[i] # q[j]
            /\ \A i, j \in DOMAIN q : i < j => q[i].budget >= q[j].budget}

\* SELECT p.* ... WHERE p.guild_id = ? ORDER BY p.value DESC, the order of
\* get_all_players and get_top_players
get_all_players_ordered(guild_id) ==
    LET rows == {p \in players : p.guild_id = guild_id}
    IN  {q \in [1 .. Cardinality(rows) -> rows] :
            /\ \A i, j \in DOMAIN q : i # j => q[i] # q[j]
            /\ \A i, j \in DOMAIN q : i < j => q[i].value >= q[j].value}

\* C28: every list of clubs is in descending order of budget and every list of
\* players in descending order of value, and rows with equal keys are in the
\* order of their insertion (ascending id)
C28_OrderedStable ==
    \A g \in Guilds :
       /\ \A q \in get_clubs_ordered(g) :
             \A i, j \in DOMAIN q :
                i < j => \/ q[i].budget > q[j].budget
                         \/ q[i].budget = q[j].budget /\ q[i].id < q[j].id
       /\ \A q \in get_all_players_ordered(g) :
             \A i, j \in DOMAIN q :
                i < j => \/ q[i].value > q[j].value
                         \/ q[i].value = q[j].value /\ q[i].id < q[j].id


\* Python's None as Database.get_club_stats returns it
NoStats == [none |-> TRUE]

\* Database.get_club_stats on the current store: "if not club: return None",
\* else the club's row with the counts of its players and transfers
get_club_stats(guild_id, club_name) ==
    LET club == get_club_by_name(clubs, guild_id, club_name)
        mine == {p \in players : p.club_id = club.id}
    IN  IF club = NoRow THEN NoStats
        ELSE [id |-> club.id, guild_id |-> club.guild_id, name |-> club.name,
              budget |-> club.budget, player_count |-> Cardinality(mine),
              total_value |-> SumValues(mine),
              transfers_in |-> Len(SelectSeq(transfers, LAMBDA t :
                                   t.guild_id = guild_id /\ t.to_club = club_name)),
              transfers_out |-> Len(SelectSeq(transfers, LAMBDA t :
                                   t.guild_id = guild_id /\ t.from_club = club_name))]

\* C29: no read returns null when nothing matches; for get_club_stats: the
\* result for a club name the community does not have is not None
C29_NeverNull ==
    \A g \in Guilds, n \in ClubNames : get_club_stats(g, n) # NoStats

\* C36: a player row whose club_id is NULL keeps club_id NULL in every later
\* state in which the row exists: no call gives a free agent a club.
C36_FreeAgentStays ==
    [][\A p \in players : p.club_id = NULL =>
          \A q \in players' : q.id = p.id => q.club_id = NULL]_vars

\* a free agent is in the store after a transfer_player call was refused
C36_Witness ==
    /\ last = Call("transfer_player", FALSE)
    /\ \E p \in players : p.club_id = NULL

\* ---- the claims about the transfer command on large budgets (SpecT) ----------

\* C37: the transfer command with from_club = to_club = an existing club, for a
\* player of that club and a fee not above its budget, succeeds, leaves the
\* players and the clubs as they are and appends its record to the log.
C37_SameClubNoChange ==
    \A p \in PlayerNames, c \in ClubNames, fee \in LargeFees :
        LET club == get_club_by_name(clubs, 1, c)
            r == transfer_player_result(1, p, c, c, fee, 7, FALSE)
        IN  (/\ club # NoRow
             /\ \E x \in players : x.guild_id = 1 /\ x.name = p /\ x.club_id = club.id
             /\ fee <= club.budget) =>
                /\ r.ret
                /\ r.players = players
                /\ r.clubs = clubs
                /\ r.transfers = log_transfer(transfers, 1, p, c, c, fee, 7, FALSE)

\* ---- the claims about interleaved calls (SpecI) ------------------------------

\* caller p is in, or has finished, a transfer_player call
InTransfer(p) == frame[p].op = "transfer_player"

\* the committed tables after all three mutations of p's transfer: the player's
\* club reference is toClub, fromClub's budget + fee, toClub's budget - fee
AllApplied(p) ==
    LET f == frame[p]
    IN  /\ players' = {IF q.guild_id = f.guild_id /\ q.name = f.player
                          /\ q.club_id = f.from_club_data.id
                       THEN [q EXCEPT !.club_id = f.to_club_data.id] ELSE q : q \in players}
        /\ clubs' = {[c EXCEPT !.budget = c.budget
                                   + (IF c.id = f.from_club_data.id THEN f.amount ELSE 0)
                                   - (IF c.id = f.to_club_data.id THEN f.amount ELSE 0)]
                     : c \in clubs}
        /\ \E q \in players' : q.name = f.player /\ q.club_id = f.to_club_data.id

\* C1: transferPlayer is all-or-nothing: a step of a transfer call, a failure
\* after any of its three updates included, either leaves the committed store
\* as it is or, when it is the call's successful return, applies all three
\* mutations at once; what the other caller can read never holds some of them
C1_AllOrNothing ==
    [][\A p \in Procs :
         (InTransfer(p) /\ pc'[p] # pc[p]) =>
            IF pc'[p] = "done" /\ frame'[p].ret
            THEN AllApplied(p)
            ELSE UNCHANGED <<clubs, players>>]_vars

\* a transfer with fee 1 has failed after its third update: the player is
\* still in fromClub and no budget has moved
C1_Witness ==
    \E p \in Procs :
        /\ pc[p] = "done" /\ InTransfer(p)
        /\ frame[p].fault /\ frame[p].updates_done = 3 /\ frame[p].amount = 1
        /\ frame[p].from_club # frame[p].to_club
        /\ clubs = frame[p].seen_clubs
        /\ \E q \in players : q.name = frame[p].player /\ q.club_id = frame[p].from_club_data.id

\* both callers have finished a transfer of the same player from the same club
\* to two different destinations, no failure was injected, and both
\* preconditions are true in the store sn_clubs, sn_players
TwoTransfers(sn_clubs, sn_players) ==
    /\ pc[1] = "done" /\ pc[2] = "done"
    /\ InTransfer(1) /\ InTransfer(2)
    /\ frame[1].player = frame[2].player
    /\ frame[1].from_club = frame[2].from_club
    /\ frame[1].to_club # frame[2].to_club
    /\ ~frame[1].fault /\ ~frame[2].fault
    /\ \A p \in Procs :
          /\ \E f \in ClubsNamed(sn_clubs, frame[p].guild_id, frame[p].from_club) :
                \E q \in PlayersNamed(sn_players, frame[p].guild_id, frame[p].player) :
                    q.club_id = f.id
          /\ \E t \in ClubsNamed(sn_clubs, frame[p].guild_id, frame[p].to_club) :
                t.budget >= frame[p].amount

\* exactly one of the two calls reports success; the player is in the winner's
\* destination and the store is sn_clubs with only the winner's fee moved
OneWinner(sn_clubs) ==
    \E w \in Procs :
        /\ frame[w].ret
        /\ \A p \in Procs \ {w} : ~frame[p].ret
        /\ \A q \in PlayersNamed(players, frame[w].guild_id, frame[w].player) :
              \E t \in ClubsNamed(clubs, frame[w].guild_id, frame[w].to_club) : q.club_id = t.id
        /\ \A c \in sn_clubs :
              \E c2 \in clubs :
                 /\ c2.id = c.id
                 /\ c2.budget = c.budget
                      + (IF c.name = frame[w].from_club THEN frame[w].amount ELSE 0)
                      - (IF c.name = frame[w].to_club THEN frame[w].amount ELSE 0)

\* C5 as stated: two interleaved transfers of the same player from the same
\* club to two different destinations, both preconditions true at the start:
\* exactly one succeeds, the player ends in the winner's destination and only
\* the winner's fee is moved
C5_Original ==
    \A s \in Procs :
        TwoTransfers(frame[s].seen_clubs, frame[s].seen_players)
            => OneWinner(frame[s].seen_clubs)

\* C5 as amended: the same, when neither destination is fromClub itself
C5_OneWinner ==
    \A s \in Procs :
        (/\ TwoTransfers(frame[s].seen_clubs, frame[s].seen_players)
         /\ \A p \in Procs : frame[p].to_club # frame[p].from_club)
            => OneWinner(frame[s].seen_clubs)

\* both transfers passed their checks before either wrote; one has moved the
\* player with fee 1 and the other's update then matched no row
C5_Witness ==
    \E w \in Procs, l \in Procs :
        /\ TwoTransfers(frame[w].seen_clubs, frame[w].seen_players)
        /\ frame[w].to_club # frame[w].from_club /\ frame[l].to_club # frame[l].from_club
        /\ frame[w].ret /\ frame[w].amount = 1
        /\ ~frame[l].ret /\ frame[l].rowcount = 0
        /\ frame[l].to_club_data # NoRow /\ frame[l].seen_clubs = frame[w].seen_clubs

\* C6: no transfer succeeds when the destination club's budget, at the moment
\* the budget updates are written, is less than the fee
C6_CheckAtWrite ==
    \A p \in Procs :
        (pc[p] = "done" /\ InTransfer(p) /\ frame[p].ret)
            => frame[p].to_budget_at_write >= frame[p].amount

\* caller p is in, or has finished, a reset_all_data call
InReset(p) == frame[p].op = "reset_all_data"

\* the committed tables after all five deletions of p's reset, and no other change
AllDeleted(p) ==
    LET g == frame[p].guild_id
    IN  /\ transfers' = SelectSeq(transfers, LAMBDA t : t.guild_id # g)
        /\ matches' = {m \in matches : m.guild_id # g}
        /\ players' = {q \in players : q.guild_id # g}
        /\ clubs' = {c \in clubs : c.guild_id # g}
        /\ bot_settings' = {b \in bot_settings : b.guild_id # g}

\* C16: resetAll(g) is atomic: a step of a reset call, a failure after any of
\* its deletions included, either leaves the committed tables as they are or,
\* when it is the call's successful return, applies all five deletions at
\* once; what another connection can read never has some of them
C16_ResetAtomic ==
    [][\A p \in Procs :
         (InReset(p) /\ (pc'[p] # pc[p] \/ frame'[p] # frame[p])) =>
            IF pc'[p] = "done" /\ frame'[p].ret
            THEN AllDeleted(p)
            ELSE UNCHANGED <<transfers, matches, players, clubs, bot_settings>>]_vars

\* a reset has failed after its fourth deletion: the transfers, matches,
\* players and clubs are all still there
C16_Witness ==
    \E p \in Procs :
        /\ pc[p] = "done" /\ InReset(p)
        /\ frame[p].fault /\ frame[p].updates_done = 4
        /\ transfers # <<>> /\ matches # {} /\ players # {} /\ clubs # {}

\* C25: a call that has ended has returned a value to its caller, also when
\* its transaction failed: it has not raised
C25_NoThrow == \A p \in Procs : pc[p] = "done" => ~frame[p].raised

\* ---- the claims about the reminder scan (SpecM) ------------------------------

\* C18: the reminder_sent flag of a match is false at creation, and once it is
\* true no step makes it false again while the match exists
C18_FlagMonotonic ==
    [][\A m2 \in matches' :
         IF \E m \in matches : m.id = m2.id
         THEN \A m \in matches : (m.id = m2.id /\ m.reminder_sent) => m2.reminder_sent
         ELSE ~m2.reminder_sent]_vars

\* a match was marked Notified in the first pass, time has passed, a second
\* pass has run to its end and a match created later is still Scheduled
C18_Witness ==
    /\ Len(scan_log) = 2 /\ scan.pc = "idle"
    /\ now > scan_log[1].at
    /\ \E m \in matches, n \in matches :
          m.reminder_sent /\ m.id \in scan_log[1].selected /\ ~n.reminder_sent /\ n.id > m.id

\* C19: over any sequence of passes, interleaved with handlers while a pass is
\* suspended in dispatch, no match is selected in two passes, and a match
\* that is selected is not Notified in the store
C19_AtMostOnce ==
    /\ \A i, j \in DOMAIN scan_log :
          i < j => scan_log[i].selected \cap scan_log[j].selected = {}
    /\ scan.pc = "dispatch" =>
          \A m \in matches : m.id = Head(scan.todo).id => ~m.reminder_sent

\* two passes at the same now: the first selected and marked a match, the
\* second has run to its end and selected nothing, the match is still there
C19_Witness ==
    /\ Len(scan_log) = 2 /\ scan.pc = "idle"
    /\ scan_log[1].at = scan_log[2].at /\ now = scan_log[1].at
    /\ scan_log[1].selected # {} /\ scan_log[2].selected = {}
    /\ \E m \in matches : m.id \in scan_log[1].selected /\ m.reminder_sent

\* C20: a pass at time now selects exactly the matches with reminder_sent =
\* false whose scheduled time minus now is strictly between 4 and 6 minutes
C20_StrictWindow ==
    [][(scan.pc = "check" /\ scan.todo # <<>> /\ scan' # scan) =>
          LET m == Head(scan.todo)
          IN  (scan'.pc = "dispatch") <=>
                 (/\ ~m.reminder_sent
                  /\ 2 * WindowLow < TimeDiff2(m, scan.at)
                  /\ TimeDiff2(m, scan.at) < 2 * WindowHigh)]_vars

\* C22: mark_reminder_sent on the current table, for every match id: a second
\* call changes nothing after the first, and a call for an id no row has
\* changes nothing
C22_MarkIdempotent ==
    \A match_id \in 0 .. match_seq + 1 :
       LET once == MarkReminderSent(matches, match_id)
       IN  /\ MarkReminderSent(once, match_id) = once
           /\ (\A m \in matches : m.id # match_id) => once = matches

\* the first pass selected a match, reset_all_data deleted it while the pass
\* was suspended in dispatch, and the pass has marked the id that no row has
C22_Witness ==
    /\ Len(scan_log) = 1 /\ scan.pc = "check"
    /\ scan_log[1].selected # {}
    /\ \A m \in matches : m.id \notin scan_log[1].selected
    /\ last = Call("reset_all_data", TRUE)

\* C31: every step keeps the community and the scheduled datetime of every
\* match; it keeps the match itself unless the step is a reset_all_data, which
\* removes every match of that match's community
C31_MatchImmutable ==
    [][\A m \in matches :
         \/ \E n \in matches' :
               n.id = m.id /\ n.guild_id = m.guild_id /\ n.datetime = m.datetime
         \/ /\ last'.op = "reset_all_data" /\ calls' = calls + 1
            /\ \A n \in matches' : n.id # m.id /\ n.guild_id # m.guild_id]_vars

\* one pass has marked a match of community 2 and has ended, a match of
\* community 1 is still Scheduled; both have the datetime they were created with
C31_Witness ==
    /\ Len(scan_log) = 1 /\ scan.pc = "idle"
    /\ \E m \in matches, n \in matches :
          /\ m.guild_id = 2 /\ m.reminder_sent /\ m.datetime \in MatchTimes
          /\ n.guild_id = 1 /\ ~n.reminder_sent /\ n.datetime \in MatchTimes

\* C34: a match's flag is set only by the mark_reminder_sent call that
\* follows the return of its own dispatch, and every match a pass selected is
\* marked by that pass, delivered or not, and stays marked: at any moment a
\* selected match still in the table is Notified unless its pass is between
\* its selection and its mark.
C34_MarkAfterDispatch ==
    /\ [](\A i \in DOMAIN scan_log : \A m \in matches :
            m.id \in scan_log[i].selected =>
                \/ m.reminder_sent
                \/ /\ i = Len(scan_log) /\ scan.pc \in {"dispatch", "mark"}
                   /\ Head(scan.todo).id = m.id)
    /\ [][\A m \in matches, n \in matches' :
             (n.id = m.id /\ ~m.reminder_sent /\ n.reminder_sent) =>
                 scan.pc = "mark" /\ Head(scan.todo).id = m.id]_vars

\* a finished pass selected a match, delivered nothing for it, and the match
\* is Notified
C34_Witness ==
    /\ scan.pc = "idle" /\ Len(scan_log) = 1
    /\ \E m \in matches :
          /\ m.id \in scan_log[1].selected /\ m.id \notin scan_log[1].delivered
          /\ m.reminder_sent

\* ---- the claims about the scan at its one-minute interval (SpecL) -------------

\* the ids create_match can give in a run
MatchIds == 1 .. MaxCalls

\* C35: with a pass every minute, a match that is more than 6 minutes ahead is
\* eventually Notified unless a reset removes it; a match becomes Notified only
\* in a pass whose start lies in its window of 4 to 6 minutes, and before its
\* scheduled time.
C35_DeliveredInTime ==
    /\ \A id \in MatchIds :
          (\E m \in matches : m.id = id /\ TimeDiff2(m, now) > 2 * WindowHigh)
              ~> (\A m \in matches : m.id = id => m.reminder_sent)
    /\ [][\A m \in matches, n \in matches' :
             (n.id = m.id /\ ~m.reminder_sent /\ n.reminder_sent) =>
                 InWindow(m, scan.at) /\ now < 2 * m.datetime]_vars

\* after minute 5: the match for minute 7, created in time, is Notified, and
\* a match for minute 5 that no pass found in its window is still Scheduled
C35_Witness ==
    /\ now > 2 * 5
    /\ \E m \in matches, n \in matches :
          /\ m.datetime = 7 /\ m.reminder_sent
          /\ n.datetime = 5 /\ ~n.reminder_sent

\* ---- the claims about the reminder scan over a stored table (SpecD) ---------

DeletedIds ==
    {frame[p].from_club_data.id :
        p \in {q \in Procs : /\ frame[q].op = "delete_club"
                              /\ pc[q] = "done" /\ frame[q].ret}}

\* C33: when every call has returned, no player's club_id is the id of a club
\* that a delete_club call deleted.
C33_NoDanglingClub ==
    (\A p \in Procs : pc[p] \in {"idle", "done"}) =>
        \A pl \in players : pl.club_id \notin DeletedIds

\* ---- the claims about rate_limit_handler (SpecR) --------------------------------

\* C38: the moments at which two handlers leave rate_limit_handler are at
\* least rate_limit_delay apart.
C38_Spaced ==
    \A a \in Requests, b \in Requests :
        (a # b /\ limiter.req[a].pc = "left" /\ limiter.req[b].pc = "left") =>
            \/ limiter.req[a].left_at - limiter.req[b].left_at >= rate_limit_delay
            \/ limiter.req[b].left_at - limiter.req[a].left_at >= rate_limit_delay

\* ---- the claims about the start-up (SpecB) -------------------------------------

\* C32: when a Database() of the start-up failed to open or to create its
\* schema, the process has started nothing: no bot, no match_reminder task, no
\* keep-alive loop, no command handler and no scan pass against the store.
C32_InitFatal ==
    boot.db_failed =>
        /\ boot.pc = "failed"
        /\ \A t \in Threads : boot.start_bot[t] = "none"
        /\ boot.match_reminder = 0
        /\ calls = 0
        /\ scan_log = <<>> /\ scan = IdleScan

\* the bot's Database() opened and the web application's failed, with a token
\* that would have started the bot
C32_Witness ==
    boot.db_failed /\ boot.token /\ boot.dbs = 1 /\ boot.pc = "failed"

\* C39: in one process at most one call of bot.start is running, at most one
\* match_reminder task and at most one keep-alive loop, however main.py was
\* started.
C39_StartedOnce ==
    /\ Cardinality(RunningBots) <= 1
    /\ boot.match_reminder <= 1
    /\ boot.keep_alive <= 1

====
